---- MODULE Spec2Model ----
(***************************************************************************)
(* Model of the concurrent execution core of datatool                      *)
(* (src/datatool/utils/parallel.py), of the turn reduction of              *)
(* src/datatool/utils/data.py and of the hash deduplicator and the volume  *)
(* packer of src/datatool/scripts/zip_dataset.py.                          *)
(*                                                                         *)
(* The specifications of this module, one per executor, one for a run of   *)
(* any executor, one each for the deduplicator, the packer, the content    *)
(* hasher, the turn reduction and the export:                              *)
(*   SpecMP   post_allocated_multiprocess  (queue-fed, processes)          *)
(*   SpecMT   post_allocated_multithread   (queue-fed, threads)            *)
(*   SpecPre  pre_allocated_multiprocess   (static partition)              *)
(*   SpecDyn  dynamic_task_pool_multiprocess (dependent tasks)             *)
(*   SpecAll  a call of any one of the four                                *)
(*   SpecArgs a call of any one of the four with keyword arguments         *)
(*   SpecDedup  deduplicate_media_files_byhash                             *)
(*   SpecPack   allocate_files_to_volumes and the zip tasks made of it     *)
(*   SpecHash   get_file_hash_fast on the bytes of two files               *)
(*   SpecDynFair, SpecMTFair  SpecDyn and SpecMT under weak fairness       *)
(*   SpecReduce  the reduction of process_turn_hook to the latest turn     *)
(*   SpecDedupOrder  the deduplicator on up to three files, all hashed     *)
(*   SpecExport  path deduplication, path rewriting and member naming      *)
(* Each specification leaves the variables of the others at their idle     *)
(* values.                                                                 *)
(***************************************************************************)
EXTENDS Integers, Sequences, FiniteSets, TLC

VARIABLES
    executor,       \* what the run calls: the executor "mp", "mt", "pre" or
                    \* "dyn", the deduplicator "dedup", the packer "pack", the
                    \* content hasher "hash", the turn reduction "reduce" or
                    \* the export "export"
    kwargs,         \* the caller's fixed keyword arguments (executors)
    fn_kwargs,      \* history: worker -> the keyword arguments its latest
                    \* fn invocation received
    \* ---- queue-fed executors (process and thread variant) ----
    all_data,       \* the item list: the kind of each item (see ItemKinds)
    num_workers,    \* the caller's num_workers
    data_queue,     \* FIFO of item indices and None markers
    result_queue,   \* FIFO of results
    fpc,            \* queue_filler: "new", "fill", "done"
    filler_pos,     \* number of puts queue_filler has made
    wpc,            \* worker -> "new", "get", "call", "exited"
    wdata,          \* worker -> the item it holds (None when it holds none)
    all_results,    \* the caller's all_results list
    cpc,            \* caller: "start", "collect", "join_filler", "join_workers", "returned"
    c_read,         \* iterations done of the caller's collection loop
    cj,             \* index of the next worker the caller joins
    popped,         \* history: item index -> number of times it was popped
    took_marker,    \* history: worker -> number of None entries it took
    raised_in,      \* history: worker -> number of fn calls of its that raised
    \* ---- static-partition executor (pre_allocated_multiprocess) ----
    pre_all_data,       \* the item list (item values)
    pre_num_workers,    \* the caller's num_workers
    pre_raises,         \* the workers (process ids) whose func call raises
    pre_result_queue,   \* manager.Queue of result sub-lists
    pre_counter_queue,  \* manager.Queue of result counts
    pre_ppc,            \* process id -> "new", "run", "done"
    pre_cpc,            \* caller: "start", "join", "collect", "returned"
    pre_k,              \* loop index of the caller's start loop and join loop
    pre_all_results,    \* the caller's all_results list
    pre_put_order,      \* history: process ids in the order of their result puts
    \* ---- dynamic scheduler (dynamic_task_pool_multiprocess) ----
    dyn_n,              \* number of initial tasks (one per item_id 1..dyn_n)
    dyn_num_workers,    \* the caller's num_workers
    dyn_last_turn,      \* fn: item_id -> the turn at which the item's chain ends
    dyn_raises,         \* fn: the tasks (<<item_id, turn>>) on which fn raises
    task_queue,         \* manager.Queue of tasks
    dyn_result_queue,   \* manager.Queue of result records
    active_workers,     \* shared Value: workers that have not finished
    total_completed,    \* shared Value: tasks completed, summed at worker exit
    dyn_pc,             \* worker -> position (see DynWorker actions)
    dyn_task,           \* worker -> the task it holds
    dyn_pending,        \* worker -> next_tasks it has still to put
    local_completed,    \* worker -> its local_completed
    dyn_cpc,            \* caller: "start", "join", "collect", "returned"
    dyn_all_results,    \* the caller's all_results list
    dyn_enqueued,       \* history: task ids ever put on task_queue
    dyn_popped,         \* history: task ids ever popped by a worker
    dyn_race,           \* history: a worker idle-exited while a sibling was
                        \* running a task that enqueues children afterwards
    completed_lock,     \* the workers inside `with completed_count.get_lock()`
    active_lock,        \* the workers inside `with active_count.get_lock()`
    dyn_reg,            \* worker -> the counter value its `+=` / `-=` has read
    mon_pc,             \* progress_monitor: "new", "test", "final", "done"
    last_count,         \* progress_monitor's last_count (what the bar shows)
    \* ---- deduplicator (deduplicate_media_files_byhash) ----
    all_media_files,    \* the FileRecords; the src_path of a record is its index
    hash_fails,         \* the src_paths on which get_file_hash_fast fails
    dd_pc,              \* coordinator: "start", "groups", "hashing", "returned"
    size_groups,        \* the size groups, in order of first occurrence
    dd_g,               \* index of the size group the second phase is at
    hash_pending,       \* src_paths whose hash worker has not delivered yet
    hash_results,       \* the hash results of the group, in completion order
    unique_files,       \* key -> UniqueFileEntry
    path_mapping,       \* src_path -> relative destination path
    media_counters,     \* <<dataset_name, media_type>> -> last idx handed out
    \* ---- volume packer (allocate_files_to_volumes) ----
    unique_file_paths,  \* the entries to pack; src_path is the index
    jsonl_data,         \* the JSON-lines payload: <<path, content>> pairs
    config_content,     \* the config payload (NoConfig when there is none)
    max_zip_size,       \* the cap in bytes
    pack_pc,            \* "start", "loop", "returned", "tasks"
    base_overhead,      \* byte size of the shared payload
    sorted_files,       \* the entries by descending size
    pack_i,             \* index in sorted_files of the loop's next entry
    volumes,            \* the sealed volumes
    current_volume,     \* the running volume
    zip_tasks,          \* the zip_info tuples made from the volumes
    \* ---- content hasher (get_file_hash_fast) ----
    hs_files,           \* two files: their paths and their bytes
    hs_out,             \* file -> the calls made on it: I/O outcome, result
    \* ---- turn reduction (process_turn_hook) ----
    rd_results,         \* the result list the scheduler returned
    rd_pos,             \* iterations done of `for result in results`
    rd_item_results,    \* the dict item_results
    \* ---- export (process_datasets with deduplicate_media_files_by_path) ----
    ex_media_files,     \* the media references of the items, one per item
    ex_pc,              \* "dedup", "update", "paths", "zip", "done"
    ex_i,               \* iterations done of the loop at hand
    ex_unique_files,    \* the dict unique_files, in insertion order
    ex_path_mapping,    \* src_path -> relative destination path
    ex_media_counters,  \* <<dataset_name, media_type>> -> last idx handed out
    ex_updated,         \* the rewritten media path of each item
    ex_file_counters,   \* dataset_file_counters of the zip stage
    ex_unique_file_paths, \* the archive entries: src_path, zip_path
    ex_archive          \* the archive members: name and source file

qvars == <<all_data, num_workers, data_queue, result_queue, fpc, filler_pos,
           wpc, wdata, all_results, cpc, c_read, cj, popped, took_marker,
           raised_in>>

pvars == <<pre_all_data, pre_num_workers, pre_raises, pre_result_queue,
           pre_counter_queue, pre_ppc, pre_cpc, pre_k, pre_all_results,
           pre_put_order>>

dvars == <<dyn_n, dyn_num_workers, dyn_last_turn, dyn_raises, task_queue,
           dyn_result_queue, active_workers, total_completed, dyn_pc, dyn_task,
           dyn_pending, local_completed, dyn_cpc, dyn_all_results,
           dyn_enqueued, dyn_popped, dyn_race, completed_lock, active_lock,
           dyn_reg, mon_pc, last_count>>

\* The locks of the two shared counters with the workers' registers, and the
\* monitor thread.
dynlockvars == <<completed_lock, active_lock, dyn_reg>>
monvars == <<mon_pc, last_count>>

zvars == <<all_media_files, hash_fails, dd_pc, size_groups, dd_g, hash_pending,
           hash_results, unique_files, path_mapping, media_counters>>

kvars == <<unique_file_paths, jsonl_data, config_content, max_zip_size,
           pack_pc, base_overhead, sorted_files, pack_i, volumes,
           current_volume, zip_tasks>>

hvars == <<hs_files, hs_out>>

rvars == <<rd_results, rd_pos, rd_item_results>>

evars == <<ex_media_files, ex_pc, ex_i, ex_unique_files, ex_path_mapping,
           ex_media_counters, ex_updated, ex_file_counters,
           ex_unique_file_paths, ex_archive>>

avars == <<kwargs, fn_kwargs>>

vars == <<executor, avars, qvars, pvars, dvars, zvars, kvars, hvars, rvars, evars>>

\* The variables an executor's actions leave alone: those of the others,
\* which executor was called and with what keyword arguments; all but the
\* step that invokes fn (the _fn frames) leave fn_kwargs alone as well.
nonqvars_fn ==
    <<executor, kwargs, pvars, dvars, zvars, kvars, hvars, rvars, evars>>
nonpvars_fn ==
    <<executor, kwargs, qvars, dvars, zvars, kvars, hvars, rvars, evars>>
nondvars_fn ==
    <<executor, kwargs, qvars, pvars, zvars, kvars, hvars, rvars, evars>>
nonqvars == <<fn_kwargs, nonqvars_fn>>
nonpvars == <<fn_kwargs, nonpvars_fn>>
nondvars == <<fn_kwargs, nondvars_fn>>
nonzvars ==
    <<executor, avars, qvars, pvars, dvars, kvars, hvars, rvars, evars>>
nonkvars ==
    <<executor, avars, qvars, pvars, dvars, zvars, hvars, rvars, evars>>
nonhvars ==
    <<executor, avars, qvars, pvars, dvars, zvars, kvars, rvars, evars>>
nonrvars ==
    <<executor, avars, qvars, pvars, dvars, zvars, kvars, hvars, evars>>
nonevars ==
    <<executor, avars, qvars, pvars, dvars, zvars, kvars, hvars, rvars>>

(***************************************************************************)
(* Bounds of the model.                                                    *)
(***************************************************************************)
MaxItems == 2
MaxWorkers == 2
\* Dynamic scheduler: initial tasks, turns after turn 0, tasks in all, workers,
\* raising tasks.
MaxTasks == 2
MaxTurn == 1
MaxTotalTasks == 2
MaxDynWorkers == 2
MaxRaises == 1

\* Python's None, as a queue entry, an item and a result.  Items are
\* identified by their index 1..Len(all_data), so None is 0.
None == 0

(***************************************************************************)
(* The caller-supplied fn, abstracted by what it does on each item:        *)
(*   "ret"      fn returns a value other than None                         *)
(*   "retNone"  fn returns None                                            *)
(*   "raise"    fn raises an Exception                                     *)
(*   "NoneItem" the item itself is None (fn is never called on it: the     *)
(*              workers take it for a termination marker)                  *)
(***************************************************************************)
ItemKinds == {"ret", "retNone", "raise", "NoneItem"}

SeqsUpTo(S, n) == UNION {[1..k -> S] : k \in 0..n}

\* A wrapper that starts one worker more than num_workers.
WorkerIds_extra == 0..num_workers

\* `for worker_id in range(num_workers)`: the workers the wrapper starts.
WorkerIds == 0..(num_workers - 1)
ItemIds == 1..Len(all_data)

\* What queue_filler puts for item i: the item itself (None if it is None).
Entry(i) == IF all_data[i] = "NoneItem" THEN None ELSE i

\* The value fn returns on item i when it returns: the result is identified
\* with the item it came from, None when fn returns None.
FnResult(i) == IF all_data[i] = "retNone" THEN None ELSE i

FnRaises(i) == all_data[i] = "raise"

\* Number of occurrences of x in sequence s.
Count(s, x) == Cardinality({k \in 1..Len(s) : s[k] = x})

\* Keyword arguments are dicts from keys to values.  NoKwargs is the call
\* without any.
NoKwargs == <<>>

\* new_kwargs = kwargs.copy(); new_kwargs["process_id"] = pid
NewKwargs_unset(kw, pid) == kw

NewKwargs(kw, pid) ==
    [k \in DOMAIN kw \cup {"process_id"} |->
        IF k = "process_id" THEN pid ELSE kw[k]]

\* func(data, **new_kwargs) in worker pid: what the invocation receives.
FnCalled(pid) ==
    fn_kwargs' = [x \in DOMAIN fn_kwargs \cup {pid} |->
                     IF x = pid THEN NewKwargs(kwargs, pid) ELSE fn_kwargs[x]]

\* No fn invocation yet; the caller passes kw.
ArgsInit(kw) ==
    /\ kwargs = kw
    /\ fn_kwargs = <<>>

QFInit ==
    /\ all_data \in SeqsUpTo(ItemKinds, MaxItems)
    /\ num_workers \in 1..MaxWorkers
    /\ data_queue = <<>>
    /\ result_queue = <<>>
    /\ fpc = "new"
    /\ filler_pos = 0
    /\ wpc = [w \in WorkerIds |-> "new"]
    /\ wdata = [w \in WorkerIds |-> None]
    /\ all_results = <<>>
    /\ cpc = "start"
    /\ c_read = 0
    /\ cj = 0
    /\ popped = [i \in ItemIds |-> 0]
    /\ took_marker = [w \in WorkerIds |-> 0]
    /\ raised_in = [w \in WorkerIds |-> 0]

\* The queue-fed executors not in use.
QFIdle ==
    /\ all_data = <<>>
    /\ num_workers = 0
    /\ data_queue = <<>>
    /\ result_queue = <<>>
    /\ fpc = "new"
    /\ filler_pos = 0
    /\ wpc = <<>>
    /\ wdata = <<>>
    /\ all_results = <<>>
    /\ cpc = "idle"
    /\ c_read = 0
    /\ cj = 0
    /\ popped = <<>>
    /\ took_marker = <<>>
    /\ raised_in = <<>>

\* The export not in use.
ExportIdle ==
    /\ ex_media_files = <<>>
    /\ ex_pc = "idle"
    /\ ex_i = 0
    /\ ex_unique_files = <<>>
    /\ ex_path_mapping = <<>>
    /\ ex_media_counters = <<>>
    /\ ex_updated = <<>>
    /\ ex_file_counters = <<>>
    /\ ex_unique_file_paths = <<>>
    /\ ex_archive = {}

\* The turn reduction not in use.
ReduceIdle ==
    /\ rd_results = <<>>
    /\ rd_pos = 0
    /\ rd_item_results = <<>>

\* The static-partition executor not in use.
PreIdle ==
    /\ pre_all_data = <<>>
    /\ pre_num_workers = 0
    /\ pre_raises = {}
    /\ pre_result_queue = <<>>
    /\ pre_counter_queue = <<>>
    /\ pre_ppc = <<>>
    /\ pre_cpc = "idle"
    /\ pre_k = 0
    /\ pre_all_results = <<>>
    /\ pre_put_order = <<>>

\* The dynamic scheduler not in use.
DynIdle ==
    /\ dyn_n = 0
    /\ dyn_num_workers = 0
    /\ dyn_last_turn = <<>>
    /\ dyn_raises = {}
    /\ task_queue = <<>>
    /\ dyn_result_queue = <<>>
    /\ active_workers = 0
    /\ total_completed = 0
    /\ dyn_pc = <<>>
    /\ dyn_task = <<>>
    /\ dyn_pending = <<>>
    /\ local_completed = <<>>
    /\ dyn_cpc = "idle"
    /\ dyn_all_results = <<>>
    /\ dyn_enqueued = {}
    /\ dyn_popped = {}
    /\ dyn_race = FALSE
    /\ completed_lock = {}
    /\ active_lock = {}
    /\ dyn_reg = <<>>
    /\ mon_pc = "new"
    /\ last_count = 0

\* The deduplicator not in use.
DedupIdle ==
    /\ all_media_files = <<>>
    /\ hash_fails = {}
    /\ dd_pc = "idle"
    /\ size_groups = <<>>
    /\ dd_g = 0
    /\ hash_pending = {}
    /\ hash_results = <<>>
    /\ unique_files = <<>>
    /\ path_mapping = <<>>
    /\ media_counters = <<>>

\* The packer not in use.
PackIdle ==
    /\ unique_file_paths = <<>>
    /\ jsonl_data = <<>>
    /\ config_content = <<>>
    /\ max_zip_size = 0
    /\ pack_pc = "idle"
    /\ base_overhead = 0
    /\ sorted_files = <<>>
    /\ pack_i = 0
    /\ volumes = <<>>
    /\ current_volume = <<>>
    /\ zip_tasks = <<>>

\* The content hasher not in use.
HashIdle ==
    /\ hs_files = <<>>
    /\ hs_out = <<>>

(***************************************************************************)
(* queue_filler, the same in both variants: every item, then num_workers   *)
(* None markers.                                                           *)
(***************************************************************************)
FillerPut ==
    /\ fpc = "fill"
    /\ data_queue' = Append(data_queue,
            IF filler_pos < Len(all_data) THEN Entry(filler_pos + 1) ELSE None)
    /\ filler_pos' = filler_pos + 1
    /\ fpc' = IF filler_pos + 1 = Len(all_data) + num_workers THEN "done" ELSE "fill"
    /\ UNCHANGED <<all_data, num_workers, result_queue, wpc, wdata, all_results,
                   cpc, c_read, cj, popped, took_marker, raised_in, nonqvars>>

(***************************************************************************)
(* post_allocated_multiprocess                                             *)
(***************************************************************************)
\* wrapper, up to the collection loop: the queues are created, the filler
\* process and the worker processes are started.
MPStart ==
    /\ cpc = "start"
    /\ cpc' = "collect"
    /\ fpc' = "fill"
    /\ wpc' = [w \in WorkerIds |-> "get"]
    /\ UNCHANGED <<all_data, num_workers, data_queue, result_queue, filler_pos,
                   wdata, all_results, c_read, cj, popped, took_marker, raised_in, nonqvars>>

\* Where the process worker goes after fn raised: the handler logs and breaks.
MPAfterRaise == "exited"

\* worker: queue.get(timeout=1) returns an entry.  An entry is in data_queue
\* once the filler's feeder thread has written it to the pipe.
MPWorkerGet(w) ==
    /\ wpc[w] = "get"
    /\ data_queue # <<>>
    /\ data_queue' = Tail(data_queue)
    /\ IF Head(data_queue) = None
         THEN /\ wpc' = [wpc EXCEPT ![w] = "exited"]
              /\ took_marker' = [took_marker EXCEPT ![w] = @ + 1]
              /\ UNCHANGED <<wdata, popped>>
         ELSE /\ wpc' = [wpc EXCEPT ![w] = "call"]
              /\ wdata' = [wdata EXCEPT ![w] = Head(data_queue)]
              /\ popped' = [popped EXCEPT ![Head(data_queue)] = @ + 1]
              /\ UNCHANGED took_marker
    /\ UNCHANGED <<all_data, num_workers, result_queue, fpc, filler_pos,
                   all_results, cpc, c_read, cj, raised_in, nonqvars>>

\* worker: queue.get(timeout=1) finds the queue empty for a second and raises
\* Empty, which `except Exception` catches: log and break.
MPWorkerGetTimeout(w) ==
    /\ wpc[w] = "get"
    /\ data_queue = <<>>
    /\ wpc' = [wpc EXCEPT ![w] = "exited"]
    /\ UNCHANGED <<all_data, num_workers, data_queue, result_queue, fpc,
                   filler_pos, wdata, all_results, cpc, c_read, cj, popped,
                   took_marker, raised_in, nonqvars>>

\* worker: result = func(data); result_queue.put(result), or the handler.
MPWorkerCall(w) ==
    /\ wpc[w] = "call"
    /\ FnCalled(w)
    /\ IF FnRaises(wdata[w])
         THEN /\ wpc' = [wpc EXCEPT ![w] = MPAfterRaise]
              /\ raised_in' = [raised_in EXCEPT ![w] = @ + 1]
              /\ UNCHANGED result_queue
         ELSE /\ result_queue' = Append(result_queue, FnResult(wdata[w]))
              /\ wpc' = [wpc EXCEPT ![w] = "get"]
              /\ UNCHANGED raised_in
    /\ wdata' = [wdata EXCEPT ![w] = None]
    /\ UNCHANGED <<all_data, num_workers, data_queue, fpc, filler_pos,
                   all_results, cpc, c_read, cj, popped, took_marker, nonqvars_fn>>

\* wrapper: one iteration of `for _ in range(len(all_data))`, a blocking get.
MPCollect ==
    /\ cpc = "collect"
    /\ c_read < Len(all_data)
    /\ result_queue # <<>>
    /\ all_results' = Append(all_results, Head(result_queue))
    /\ result_queue' = Tail(result_queue)
    /\ c_read' = c_read + 1
    /\ UNCHANGED <<all_data, num_workers, data_queue, fpc, filler_pos, wpc,
                   wdata, cpc, cj, popped, took_marker, raised_in, nonqvars>>

\* wrapper: the collection loop has run len(all_data) times.
MPCollectDone ==
    /\ cpc = "collect"
    /\ c_read = Len(all_data)
    /\ cpc' = "join_filler"
    /\ UNCHANGED <<all_data, num_workers, data_queue, result_queue, fpc,
                   filler_pos, wpc, wdata, all_results, c_read, cj, popped,
                   took_marker, raised_in, nonqvars>>

\* wrapper: filler_process.join()
MPJoinFiller ==
    /\ cpc = "join_filler"
    /\ fpc = "done"
    /\ cpc' = "join_workers"
    /\ UNCHANGED <<all_data, num_workers, data_queue, result_queue, fpc,
                   filler_pos, wpc, wdata, all_results, c_read, cj, popped,
                   took_marker, raised_in, nonqvars>>

\* wrapper: p.join() for the next worker process.
MPJoinWorker ==
    /\ cpc = "join_workers"
    /\ cj < num_workers
    /\ wpc[cj] = "exited"
    /\ cj' = cj + 1
    /\ UNCHANGED <<all_data, num_workers, data_queue, result_queue, fpc,
                   filler_pos, wpc, wdata, all_results, cpc, c_read, popped,
                   took_marker, raised_in, nonqvars>>

\* wrapper: return all_results
MPReturn ==
    /\ cpc = "join_workers"
    /\ cj = num_workers
    /\ cpc' = "returned"
    /\ UNCHANGED <<all_data, num_workers, data_queue, result_queue, fpc,
                   filler_pos, wpc, wdata, all_results, c_read, cj, popped,
                   took_marker, raised_in, nonqvars>>

MPNext ==
    \/ MPStart
    \/ FillerPut
    \/ \E w \in WorkerIds : MPWorkerGet(w)
    \/ \E w \in WorkerIds : MPWorkerGetTimeout(w)
    \/ \E w \in WorkerIds : MPWorkerCall(w)
    \/ MPCollect
    \/ MPCollectDone
    \/ MPJoinFiller
    \/ MPJoinWorker
    \/ MPReturn

RunMP ==
    /\ executor = "mp"
    /\ QFInit
    /\ PreIdle
    /\ DynIdle
    /\ DedupIdle
    /\ PackIdle
    /\ HashIdle
    /\ ReduceIdle
    /\ ExportIdle

InitMP == RunMP /\ ArgsInit(NoKwargs)

SpecMP == InitMP /\ [][MPNext]_vars

(***************************************************************************)
(* post_allocated_multithread                                              *)
(***************************************************************************)
\* wrapper, up to the collection loop: an empty list returns [] at once;
\* otherwise the filler thread and the worker threads are started.
MTStart ==
    /\ cpc = "start"
    /\ IF Len(all_data) = 0
         THEN /\ cpc' = "returned"
              /\ UNCHANGED <<fpc, wpc>>
         ELSE /\ cpc' = "collect"
              /\ fpc' = "fill"
              /\ wpc' = [w \in WorkerIds |-> "get"]
    /\ UNCHANGED <<all_data, num_workers, data_queue, result_queue, filler_pos,
                   wdata, all_results, c_read, cj, popped, took_marker, raised_in, nonqvars>>

\* Where the thread worker goes after fn raised: the handler logs, puts None
\* on the result queue, and the loop goes on.
MTAfterRaise == "get"

\* A handler that logs the error and puts nothing.
MTRaisePut_nothing(rq) == rq

\* What the thread worker's handler puts on the result queue after fn raised.
MTRaisePut(rq) == Append(rq, None)

\* worker: data_q.get() returns an entry (it waits without a timeout).
MTWorkerGet(w) ==
    /\ wpc[w] = "get"
    /\ data_queue # <<>>
    /\ data_queue' = Tail(data_queue)
    /\ IF Head(data_queue) = None
         THEN /\ wpc' = [wpc EXCEPT ![w] = "exited"]
              /\ took_marker' = [took_marker EXCEPT ![w] = @ + 1]
              /\ UNCHANGED <<wdata, popped>>
         ELSE /\ wpc' = [wpc EXCEPT ![w] = "call"]
              /\ wdata' = [wdata EXCEPT ![w] = Head(data_queue)]
              /\ popped' = [popped EXCEPT ![Head(data_queue)] = @ + 1]
              /\ UNCHANGED took_marker
    /\ UNCHANGED <<all_data, num_workers, result_queue, fpc, filler_pos,
                   all_results, cpc, c_read, cj, raised_in, nonqvars>>

\* worker: result = func(data); result_q.put(result), or the handler's
\* result_q.put(None); then task_done().
MTWorkerCall(w) ==
    /\ wpc[w] = "call"
    /\ FnCalled(w)
    /\ IF FnRaises(wdata[w])
         THEN /\ result_queue' = MTRaisePut(result_queue)
              /\ wpc' = [wpc EXCEPT ![w] = MTAfterRaise]
              /\ raised_in' = [raised_in EXCEPT ![w] = @ + 1]
         ELSE /\ result_queue' = Append(result_queue, FnResult(wdata[w]))
              /\ wpc' = [wpc EXCEPT ![w] = "get"]
              /\ UNCHANGED raised_in
    /\ wdata' = [wdata EXCEPT ![w] = None]
    /\ UNCHANGED <<all_data, num_workers, data_queue, fpc, filler_pos,
                   all_results, cpc, c_read, cj, popped, took_marker, nonqvars_fn>>

\* What the thread caller keeps of a result it has read: None is dropped.
MTKeep(results, r) == IF r # None THEN Append(results, r) ELSE results

\* wrapper: one iteration of `for _ in range(len(all_data))`, a blocking get.
MTCollect ==
    /\ cpc = "collect"
    /\ c_read < Len(all_data)
    /\ result_queue # <<>>
    /\ all_results' = MTKeep(all_results, Head(result_queue))
    /\ result_queue' = Tail(result_queue)
    /\ c_read' = c_read + 1
    /\ UNCHANGED <<all_data, num_workers, data_queue, fpc, filler_pos, wpc,
                   wdata, cpc, cj, popped, took_marker, raised_in, nonqvars>>

\* wrapper: the collection loop has run len(all_data) times.
MTCollectDone ==
    /\ cpc = "collect"
    /\ c_read = Len(all_data)
    /\ cpc' = "join_filler"
    /\ UNCHANGED <<all_data, num_workers, data_queue, result_queue, fpc,
                   filler_pos, wpc, wdata, all_results, c_read, cj, popped,
                   took_marker, raised_in, nonqvars>>

\* wrapper: filler_thread.join(timeout=5): the thread has ended, or the
\* timeout elapses while it is still running.
MTJoinFiller ==
    /\ cpc = "join_filler"
    /\ cpc' = "join_workers"
    /\ UNCHANGED <<all_data, num_workers, data_queue, result_queue, fpc,
                   filler_pos, wpc, wdata, all_results, c_read, cj, popped,
                   took_marker, raised_in, nonqvars>>

\* wrapper: t.join(timeout=5) for the next worker thread: the thread has
\* ended, or the timeout elapses while it is still running.
MTJoinWorker ==
    /\ cpc = "join_workers"
    /\ cj < num_workers
    /\ cj' = cj + 1
    /\ UNCHANGED <<all_data, num_workers, data_queue, result_queue, fpc,
                   filler_pos, wpc, wdata, all_results, cpc, c_read, popped,
                   took_marker, raised_in, nonqvars>>

\* wrapper: return all_results
MTReturn ==
    /\ cpc = "join_workers"
    /\ cj = num_workers
    /\ cpc' = "returned"
    /\ UNCHANGED <<all_data, num_workers, data_queue, result_queue, fpc,
                   filler_pos, wpc, wdata, all_results, c_read, cj, popped,
                   took_marker, raised_in, nonqvars>>

MTNext ==
    \/ MTStart
    \/ FillerPut
    \/ \E w \in WorkerIds : MTWorkerGet(w)
    \/ \E w \in WorkerIds : MTWorkerCall(w)
    \/ MTCollect
    \/ MTCollectDone
    \/ MTJoinFiller
    \/ MTJoinWorker
    \/ MTReturn

RunMT ==
    /\ executor = "mt"
    /\ QFInit
    /\ PreIdle
    /\ DynIdle
    /\ DedupIdle
    /\ PackIdle
    /\ HashIdle
    /\ ReduceIdle
    /\ ExportIdle

InitMT == RunMT /\ ArgsInit(NoKwargs)

SpecMT == InitMT /\ [][MTNext]_vars

(***************************************************************************)
(* Vocabulary of the queue-fed claims.                                     *)
(***************************************************************************)
\* Items on which fn is called and returns.
NonRaising == {i \in ItemIds : all_data[i] \in {"ret", "retNone"}}

\* The returned list holds exactly one result per item whose fn call did not
\* raise, and nothing else.
OneResultPerNonRaising(results) ==
    /\ Len(results) = Cardinality(NonRaising)
    /\ \A i \in ItemIds : all_data[i] = "ret" => Count(results, i) = 1
    /\ Count(results, None) = Cardinality({i \in ItemIds : all_data[i] = "retNone"})

AllExited == \A w \in WorkerIds : wpc[w] = "exited"

\* A process worker that left its loop without a marker and without a raise
\* left it because its get timed out.
MPTimedOut(w) == wpc[w] = "exited" /\ took_marker[w] = 0 /\ raised_in[w] = 0

NoNoneItem == \A i \in ItemIds : all_data[i] # "NoneItem"

\* C1 (as claimed): post_allocated_multiprocess terminates and returns exactly
\* one result per item whose fn call did not raise, also when fn raises for
\* some items.  Stated for item lists without None and runs in which no get
\* timed out: once no process can take a step, the caller has returned that
\* list.
C1_MPTerminatesWithResults ==
    (NoNoneItem /\ (\A w \in WorkerIds : ~MPTimedOut(w)) /\ ~ENABLED MPNext)
        => (cpc = "returned" /\ OneResultPerNonRaising(all_results))

\* C2 (as claimed): post_allocated_multithread terminates and returns exactly
\* one result for each item whose fn call did not raise, and nothing else:
\* once no thread can take a step the caller has returned, and what it
\* returned is that list.
C2_MTTerminatesWithResults ==
    /\ (~ENABLED MTNext) => cpc = "returned"
    /\ cpc = "returned" => OneResultPerNonRaising(all_results)

\* C3 (as claimed): in both variants a worker whose fn call raises goes on to
\* pop the next queue entry.  For the process variant: the step of a worker
\* whose fn call raises leaves it at its get.
C3_RaiseKeepsWorker ==
    [][\A w \in WorkerIds :
          (wpc[w] = "call" /\ FnRaises(wdata[w]) /\ wpc'[w] # "call")
              => wpc'[w] = "get"]_vars

\* C4 (as claimed): the only way a worker stops is by taking a termination
\* marker, never because the queue was empty when it looked: every worker
\* that has stopped has taken exactly one marker.
C4_StopsOnlyOnMarker ==
    \A w \in WorkerIds : wpc[w] = "exited" => took_marker[w] = 1

\* C5 (as claimed): with a non-raising fn, under every interleaving of the
\* filler and the workers each item is popped exactly once and its result is
\* exactly once in the returned list: once nothing can take a step, the caller
\* has returned and every item was popped once and has its result once.
C5_ExactlyOnce ==
    ((\A i \in ItemIds : all_data[i] = "ret") /\ ~ENABLED MPNext)
        => /\ cpc = "returned"
           /\ \A i \in ItemIds : popped[i] = 1 /\ Count(all_results, i) = 1

\* The thread variant with its threads kept running: as long as the filler,
\* a worker or the caller can take a step, one of them does.
SpecMTFair == SpecMT /\ WF_vars(MTNext)

\* The puts made on the result channel so far: those the caller has read and
\* those still queued.
MTPuts == c_read + Len(result_queue)

\* The items a worker has popped and is through with.
MTItemsDone ==
    {i \in ItemIds : popped[i] >= 1 /\ \A w \in WorkerIds : wdata[w] # i}

\* C35: in the thread variant, for item lists without a None element, every
\* item is popped at most once and every popped item a worker is through
\* with has led to exactly one put on the result channel (the result of a
\* returning call, None included, and None for a raising call), so that the
\* puts never exceed len(items); and the run ends with len(items) puts made,
\* the caller's len(items) reads done and the caller returned.
C35_MTOnePutPerItem ==
    /\ [](NoNoneItem =>
            /\ \A i \in ItemIds : popped[i] <= 1
            /\ MTPuts = Cardinality(MTItemsDone)
            /\ \A i \in MTItemsDone :
                  all_data[i] = "ret" =>
                      Count(all_results \o result_queue, i) = 1
            /\ Count(result_queue, None) <=
                  Cardinality({i \in MTItemsDone : all_data[i] # "ret"}))
    /\ (NoNoneItem =>
            <>[](/\ cpc = "returned"
                 /\ c_read = Len(all_data)
                 /\ MTPuts = Len(all_data)))

\* C35 witness: the caller has returned from a run over two items, one on
\* which fn raised and one on which it returned None; it made its two reads
\* and kept nothing.
C35_Witness ==
    /\ executor = "mt"
    /\ cpc = "returned"
    /\ Len(all_data) = 2
    /\ \E i, j \in ItemIds : all_data[i] = "raise" /\ all_data[j] = "retNone"
    /\ c_read = 2
    /\ all_results = <<>>

(***************************************************************************)
(* pre_allocated_multiprocess                                              *)
(***************************************************************************)
PreVals == {"a", "b"}

PreWorkerIds == 0..(pre_num_workers - 1)

\* The subsequence of s at the indices in I, in index order.
RECURSIVE SubSeqAt(_, _)
SubSeqAt(s, I) ==
    IF I = {} THEN <<>>
    ELSE LET m == CHOOSE x \in I : \A y \in I : y >= x
         IN  <<s[m]>> \o SubSeqAt(s, I \ {m})

\* A variant that cuts num_workers contiguous chunks of len // num_workers
\* items each and forgets the remainder.
split_data_for_workers_chunked(data_list, n) ==
    [pid \in 0..(n - 1) |->
        SubSeqAt(data_list,
                 {i \in 1..Len(data_list) :
                     /\ pid * (Len(data_list) \div n) < i
                     /\ i <= (pid + 1) * (Len(data_list) \div n)})]

\* A variant that counts the items from 1: the item at index i goes to
\* sub-list (i + 1) % num_workers.
split_data_for_workers_shifted(data_list, n) ==
    [pid \in 0..(n - 1) |->
        SubSeqAt(data_list, {i \in 1..Len(data_list) : i % n = pid})]

\* split_data_for_workers: the item at (0-based) index i goes to sub-list
\* i % num_workers; the index i of the code is i - 1 here.
split_data_for_workers(data_list, n) ==
    [pid \in 0..(n - 1) |->
        SubSeqAt(data_list, {i \in 1..Len(data_list) : (i - 1) % n = pid})]

all_data_list == split_data_for_workers(pre_all_data, pre_num_workers)

\* func on the sub-list of worker pid, when it returns: the identity.
PreFunc(data) == data

\* A caller that puts each result in front of what it has.
PreExtend_front(results, r) == r \o results

\* all_results.extend(_result) for a list result.
PreExtend(results, r) == results \o r

PreInit ==
    /\ pre_all_data \in SeqsUpTo(PreVals, MaxItems)
    /\ pre_num_workers \in 1..MaxWorkers
    /\ pre_raises \in SUBSET PreWorkerIds
    /\ pre_result_queue = <<>>
    /\ pre_counter_queue = <<>>
    /\ pre_ppc = [pid \in PreWorkerIds |-> "new"]
    /\ pre_cpc = "start"
    /\ pre_k = 0
    /\ pre_all_results = <<>>
    /\ pre_put_order = <<>>

\* wrapper: one iteration of the loop that creates and starts the processes.
PreStartProcess ==
    /\ pre_cpc = "start"
    /\ pre_k < pre_num_workers
    /\ pre_ppc' = [pre_ppc EXCEPT ![pre_k] = "run"]
    /\ pre_k' = pre_k + 1
    /\ UNCHANGED <<pre_all_data, pre_num_workers, pre_raises, pre_result_queue,
                   pre_counter_queue, pre_cpc, pre_all_results, pre_put_order,
                   nonpvars>>

\* wrapper: every process is started; on to the joins.
PreStartDone ==
    /\ pre_cpc = "start"
    /\ pre_k = pre_num_workers
    /\ pre_cpc' = "join"
    /\ pre_k' = 0
    /\ UNCHANGED <<pre_all_data, pre_num_workers, pre_raises, pre_result_queue,
                   pre_counter_queue, pre_ppc, pre_all_results, pre_put_order,
                   nonpvars>>

\* A variant whose handler lets the failure out of the worker: the pool is
\* torn down, every process ends and those still running put nothing.
PreProcessWorker_abort(pid) ==
    /\ pre_ppc[pid] = "run"
    /\ FnCalled(pid)
    /\ IF pid \in pre_raises
         THEN /\ pre_ppc' = [q \in PreWorkerIds |-> "done"]
              /\ UNCHANGED <<pre_result_queue, pre_counter_queue,
                             pre_put_order>>
         ELSE /\ pre_ppc' = [pre_ppc EXCEPT ![pid] = "done"]
              /\ pre_result_queue' =
                    Append(pre_result_queue, PreFunc(all_data_list[pid]))
              /\ pre_counter_queue' =
                    Append(pre_counter_queue, Len(PreFunc(all_data_list[pid])))
              /\ pre_put_order' = Append(pre_put_order, pid)
    /\ UNCHANGED <<pre_all_data, pre_num_workers, pre_raises, pre_cpc, pre_k,
                   pre_all_results, nonpvars_fn>>

\* process_worker: func on the sub-list, then the puts; or the handler, which
\* logs and puts nothing.
PreProcessWorker(pid) ==
    /\ pre_ppc[pid] = "run"
    /\ FnCalled(pid)
    /\ pre_ppc' = [pre_ppc EXCEPT ![pid] = "done"]
    /\ IF pid \in pre_raises
         THEN UNCHANGED <<pre_result_queue, pre_counter_queue, pre_put_order>>
         ELSE /\ pre_result_queue' =
                    Append(pre_result_queue, PreFunc(all_data_list[pid]))
              /\ pre_counter_queue' =
                    Append(pre_counter_queue, Len(PreFunc(all_data_list[pid])))
              /\ pre_put_order' = Append(pre_put_order, pid)
    /\ UNCHANGED <<pre_all_data, pre_num_workers, pre_raises, pre_cpc, pre_k,
                   pre_all_results, nonpvars_fn>>

\* wrapper: p.join() for the next process.
PreJoin ==
    /\ pre_cpc = "join"
    /\ pre_k < pre_num_workers
    /\ pre_ppc[pre_k] = "done"
    /\ pre_k' = pre_k + 1
    /\ UNCHANGED <<pre_all_data, pre_num_workers, pre_raises, pre_result_queue,
                   pre_counter_queue, pre_ppc, pre_cpc, pre_all_results,
                   pre_put_order, nonpvars>>

\* wrapper: every process is joined; on to the collection.
PreJoinDone ==
    /\ pre_cpc = "join"
    /\ pre_k = pre_num_workers
    /\ pre_cpc' = "collect"
    /\ UNCHANGED <<pre_all_data, pre_num_workers, pre_raises, pre_result_queue,
                   pre_counter_queue, pre_ppc, pre_k, pre_all_results,
                   pre_put_order, nonpvars>>

\* wrapper: one iteration of `while not result_queue.empty()`.
PreCollect ==
    /\ pre_cpc = "collect"
    /\ pre_result_queue # <<>>
    /\ pre_all_results' = PreExtend(pre_all_results, Head(pre_result_queue))
    /\ pre_result_queue' = Tail(pre_result_queue)
    /\ UNCHANGED <<pre_all_data, pre_num_workers, pre_raises, pre_counter_queue,
                   pre_ppc, pre_cpc, pre_k, pre_put_order, nonpvars>>

\* wrapper: the result queue is empty: return all_results.
PreReturn ==
    /\ pre_cpc = "collect"
    /\ pre_result_queue = <<>>
    /\ pre_cpc' = "returned"
    /\ UNCHANGED <<pre_all_data, pre_num_workers, pre_raises, pre_result_queue,
                   pre_counter_queue, pre_ppc, pre_k, pre_all_results,
                   pre_put_order, nonpvars>>

PreNext ==
    \/ PreStartProcess
    \/ PreStartDone
    \/ \E pid \in PreWorkerIds : PreProcessWorker(pid)
    \/ PreJoin
    \/ PreJoinDone
    \/ PreCollect
    \/ PreReturn

RunPre ==
    /\ executor = "pre"
    /\ PreInit
    /\ QFIdle
    /\ DynIdle
    /\ DedupIdle
    /\ PackIdle
    /\ HashIdle
    /\ ReduceIdle
    /\ ExportIdle

InitPre == RunPre /\ ArgsInit(NoKwargs)

SpecPre == InitPre /\ [][PreNext]_vars

(***************************************************************************)
(* Vocabulary of the static-partition claims.                              *)
(***************************************************************************)
\* The concatenation of the result sub-lists of the processes in `order`
\* (a sequence of process ids).
RECURSIVE ConcatInOrder(_)
ConcatInOrder(order) ==
    IF order = <<>> THEN <<>>
    ELSE PreFunc(all_data_list[Head(order)]) \o ConcatInOrder(Tail(order))

\* The process ids that put a result, in increasing order.
RECURSIVE Ascending(_)
Ascending(S) ==
    IF S = {} THEN <<>>
    ELSE LET m == CHOOSE x \in S : \A y \in S : y >= x
         IN  <<m>> \o Ascending(S \ {m})

\* C9: with fn the identity (no func call raises), the returned list has the
\* length of the item list and the same multiset of elements.
C9_PrePermutation ==
    (pre_cpc = "returned" /\ pre_raises = {})
        => /\ Len(pre_all_results) = Len(pre_all_data)
           /\ \A v \in PreVals :
                  Count(pre_all_results, v) = Count(pre_all_data, v)

\* C9 witness: a run with fn the identity has returned, with several workers
\* and an item list that holds the same value twice.
C9_Witness ==
    /\ pre_cpc = "returned"
    /\ pre_raises = {}
    /\ pre_num_workers >= 2
    /\ Len(pre_all_data) >= 2
    /\ \E v \in PreVals : Count(pre_all_data, v) >= 2

\* C10 (as claimed): the returned list is the concatenation of the workers'
\* result sub-lists in worker-index order, whatever order they finish in.
C10_WorkerIndexOrder ==
    pre_cpc = "returned"
        => pre_all_results = ConcatInOrder(Ascending(PreWorkerIds \ pre_raises))

\* C10 (amended): the returned list is the concatenation of the workers'
\* result sub-lists in the order in which the workers put them on the result
\* queue (completion order); each sub-list stays contiguous and in order.
C10_CompletionOrder ==
    pre_cpc = "returned" => pre_all_results = ConcatInOrder(pre_put_order)

\* C10 witness: a run has returned in which a worker with a higher index put
\* its non-empty sub-list before a worker with a lower index.
C10_Witness ==
    /\ pre_cpc = "returned"
    /\ \E i, j \in 1..Len(pre_put_order) :
          /\ i < j
          /\ pre_put_order[i] > pre_put_order[j]
          /\ all_data_list[pre_put_order[i]] # all_data_list[pre_put_order[j]]
          /\ all_data_list[pre_put_order[j]] # <<>>

ContainsSubList(results, sub) ==
    \E k \in 0..(Len(results) - Len(sub)) :
        SubSeq(results, k + 1, k + Len(sub)) = sub

\* C12: whichever workers' func call raises, the run ends with wrapper
\* returned (it stops nowhere else), and the returned list holds the whole
\* result sub-list of every worker whose call did not raise, and nothing
\* more.
C12_FailureIsLocal ==
    /\ (~ENABLED PreNext) => pre_cpc = "returned"
    /\ pre_cpc = "returned" =>
          /\ \A pid \in PreWorkerIds \ pre_raises :
                 ContainsSubList(pre_all_results, PreFunc(all_data_list[pid]))
          /\ Len(pre_all_results) =
                 Len(ConcatInOrder(Ascending(PreWorkerIds \ pre_raises)))

\* C12 witness: a run has returned in which the func call of one worker
\* raised and another worker had a non-empty sub-list to return.
C12_Witness ==
    /\ pre_cpc = "returned"
    /\ \E p \in pre_raises, q \in PreWorkerIds \ pre_raises :
          all_data_list[q] # <<>>

(***************************************************************************)
(* dynamic_task_pool_multiprocess                                          *)
(***************************************************************************)
DynWorkerIds == 0..(dyn_num_workers - 1)
DynItemIds == 1..dyn_n

\* A task record: {task_id, item_id, turn}; the task id is the pair.
Task(i, t) == [task_id |-> <<i, t>>, item_id |-> i, turn |-> t]

\* The value of a worker's `task` while it holds none.
NoTask == [task_id |-> <<>>, item_id |-> 0, turn |-> 0]

\* Every task the run can see: the chain of each item up to its last turn.
AllTasks == {<<i, t>> \in DynItemIds \X (0..MaxTurn) : t <= dyn_last_turn[i]}

\* fn(task) when it returns: an intermediate turn returns "partial" and the
\* task of the next turn, the last turn returns "final" and no task.
FnOut(task) ==
    IF task.turn < dyn_last_turn[task.item_id]
      THEN [result |-> "partial",
            next_tasks |-> <<Task(task.item_id, task.turn + 1)>>]
      ELSE [result |-> "final", next_tasks |-> <<>>]

DynFnRaises(task) == task.task_id \in dyn_raises

\* The record a worker puts on the result queue for its task.
ResultRecord(task) ==
    [task_id |-> task.task_id, item_id |-> task.item_id, turn |-> task.turn,
     result |-> FnOut(task).result]

DynInit ==
    /\ dyn_n \in 0..MaxTasks
    /\ dyn_num_workers \in 1..MaxDynWorkers
    /\ dyn_last_turn \in [DynItemIds -> 0..MaxTurn]
    /\ Cardinality(AllTasks) <= MaxTotalTasks
    /\ dyn_raises \in {R \in SUBSET AllTasks : Cardinality(R) <= MaxRaises}
    /\ task_queue = <<>>
    /\ dyn_result_queue = <<>>
    /\ active_workers = dyn_num_workers
    /\ total_completed = 0
    /\ dyn_pc = [w \in DynWorkerIds |-> "new"]
    /\ dyn_task = [w \in DynWorkerIds |-> NoTask]
    /\ dyn_pending = [w \in DynWorkerIds |-> <<>>]
    /\ local_completed = [w \in DynWorkerIds |-> 0]
    /\ dyn_cpc = "start"
    /\ dyn_all_results = <<>>
    /\ dyn_enqueued = {}
    /\ dyn_popped = {}
    /\ dyn_race = FALSE
    /\ completed_lock = {}
    /\ active_lock = {}
    /\ dyn_reg = [w \in DynWorkerIds |-> 0]
    /\ mon_pc = "new"
    /\ last_count = 0

\* wrapper, up to the joins: no initial task returns [] at once; otherwise
\* the initial tasks are put on the task queue, the workers are started and
\* then the monitor thread.
DynStart ==
    /\ dyn_cpc = "start"
    /\ IF dyn_n = 0
         THEN /\ dyn_cpc' = "returned"
              /\ UNCHANGED <<task_queue, dyn_pc, dyn_enqueued, mon_pc>>
         ELSE /\ dyn_cpc' = "join"
              /\ task_queue' = [k \in 1..dyn_n |-> Task(k, 0)]
              /\ dyn_enqueued' = {<<k, 0>> : k \in 1..dyn_n}
              /\ dyn_pc' = [w \in DynWorkerIds |-> "get"]
              /\ mon_pc' = "test"
    /\ UNCHANGED <<dyn_n, dyn_num_workers, dyn_last_turn, dyn_raises,
                   dyn_result_queue, active_workers, total_completed, dyn_task,
                   dyn_pending, local_completed, dyn_all_results, dyn_popped,
                   dyn_race, dynlockvars, last_count, nondvars>>

\* worker: task_q.get(timeout=3) returns a task.  The wrapper never puts a
\* None on the task queue and tasks are records, so `if task is None: break`
\* is not taken; the outer `except Exception` answers a failure of the
\* manager connection, which is outside this model.
DynGet(w) ==
    /\ dyn_pc[w] = "get"
    /\ task_queue # <<>>
    /\ task_queue' = Tail(task_queue)
    /\ dyn_task' = [dyn_task EXCEPT ![w] = Head(task_queue)]
    /\ dyn_popped' = dyn_popped \cup {Head(task_queue).task_id}
    /\ dyn_pc' = [dyn_pc EXCEPT ![w] = "call"]
    /\ UNCHANGED <<dyn_n, dyn_num_workers, dyn_last_turn, dyn_raises,
                   dyn_result_queue, active_workers, total_completed,
                   dyn_pending, local_completed, dyn_cpc, dyn_all_results,
                   dyn_enqueued, dyn_race, dynlockvars, monvars, nondvars>>

\* worker: task_q.get(timeout=3) raises Empty: the queue stayed empty.
DynGetEmpty(w) ==
    /\ dyn_pc[w] = "get"
    /\ task_queue = <<>>
    /\ dyn_pc' = [dyn_pc EXCEPT ![w] = "check1"]
    /\ UNCHANGED <<dyn_n, dyn_num_workers, dyn_last_turn, dyn_raises,
                   task_queue, dyn_result_queue, active_workers,
                   total_completed, dyn_task, dyn_pending, local_completed,
                   dyn_cpc, dyn_all_results, dyn_enqueued, dyn_popped,
                   dyn_race, dynlockvars, monvars, nondvars>>

\* A worker that leaves its loop when fn raises.
DynAfterRaise_break == "exit_completed"

\* Where the worker goes after fn raised: the inner handler logs the error
\* and the loop goes on.
DynAfterRaise == "get"

\* A worker that puts the next tasks before the result record.
DynSucc_children_first(step) ==
    CASE step = "call" -> "put_next"
      [] step = "put_next" -> "put_result"
      [] step = "put_result" -> "count"

\* A worker that leaves the next tasks out.
DynSucc_skip_children(step) ==
    CASE step = "call" -> "put_result"
      [] step = "put_result" -> "count"
      [] step = "put_next" -> "count"

\* The order of the worker's steps on a task whose fn call returned: the
\* result record is put, then the next tasks, then the task is counted.
DynSucc(step) ==
    CASE step = "call" -> "put_result"
      [] step = "put_result" -> "put_next"
      [] step = "put_next" -> "count"

\* The worker's position after `step` with `pending` next tasks still to
\* put: the loop over an empty next_tasks is skipped, and
\* `local_completed += 1`, local to the worker, is taken with the step before
\* it, after which the worker is back at its get.
DynGoto(step, pending) ==
    LET s1 == DynSucc(step)
        s2 == IF s1 = "put_next" /\ pending = <<>> THEN DynSucc(s1) ELSE s1
    IN  IF s2 = "count" THEN "get" ELSE s2

DynCounted(step, pending, n) ==
    LET s1 == DynSucc(step)
        s2 == IF s1 = "put_next" /\ pending = <<>> THEN DynSucc(s1) ELSE s1
    IN  IF s2 = "count" THEN n + 1 ELSE n

\* worker: result = func(task), which returns or raises.
DynCall(w) ==
    /\ dyn_pc[w] = "call"
    /\ FnCalled(w)
    /\ IF DynFnRaises(dyn_task[w])
         THEN /\ dyn_pc' = [dyn_pc EXCEPT ![w] = DynAfterRaise]
              /\ dyn_task' = [dyn_task EXCEPT ![w] = NoTask]
              /\ UNCHANGED <<dyn_pending, local_completed>>
         ELSE /\ dyn_pc' = [dyn_pc EXCEPT
                   ![w] = DynGoto("call", FnOut(dyn_task[w]).next_tasks)]
              /\ dyn_pending' = [dyn_pending EXCEPT
                                    ![w] = FnOut(dyn_task[w]).next_tasks]
              /\ local_completed' = [local_completed EXCEPT
                   ![w] = DynCounted("call", FnOut(dyn_task[w]).next_tasks, @)]
              /\ UNCHANGED dyn_task
    /\ UNCHANGED <<dyn_n, dyn_num_workers, dyn_last_turn, dyn_raises,
                   task_queue, dyn_result_queue, active_workers,
                   total_completed, dyn_cpc, dyn_all_results,
                   dyn_enqueued, dyn_popped, dyn_race, dynlockvars, monvars, nondvars_fn>>

\* worker: result_q.put({task_id, item_id, turn, result}).
DynPutResult(w) ==
    /\ dyn_pc[w] = "put_result"
    /\ dyn_result_queue' = Append(dyn_result_queue, ResultRecord(dyn_task[w]))
    /\ dyn_pc' = [dyn_pc EXCEPT ![w] = DynGoto("put_result", dyn_pending[w])]
    /\ local_completed' = [local_completed EXCEPT
                              ![w] = DynCounted("put_result", dyn_pending[w], @)]
    /\ UNCHANGED <<dyn_n, dyn_num_workers, dyn_last_turn, dyn_raises,
                   task_queue, active_workers, total_completed, dyn_task,
                   dyn_pending, dyn_cpc, dyn_all_results, dyn_enqueued,
                   dyn_popped, dyn_race, dynlockvars, monvars, nondvars>>

\* worker: one task_q.put(next_task) of the loop over result['next_tasks'];
\* after the last one the loop is left.
DynPutNext(w) ==
    /\ dyn_pc[w] = "put_next"
    /\ dyn_pending[w] # <<>>
    /\ task_queue' = Append(task_queue, Head(dyn_pending[w]))
    /\ dyn_enqueued' = dyn_enqueued \cup {Head(dyn_pending[w]).task_id}
    /\ dyn_pending' = [dyn_pending EXCEPT ![w] = Tail(@)]
    /\ IF Tail(dyn_pending[w]) = <<>>
         THEN /\ dyn_pc' = [dyn_pc EXCEPT ![w] = DynGoto("put_next", <<>>)]
              /\ local_completed' = [local_completed EXCEPT
                                        ![w] = DynCounted("put_next", <<>>, @)]
         ELSE UNCHANGED <<dyn_pc, local_completed>>
    /\ UNCHANGED <<dyn_n, dyn_num_workers, dyn_last_turn, dyn_raises,
                   dyn_result_queue, active_workers, total_completed, dyn_task,
                   dyn_cpc, dyn_all_results, dyn_popped, dyn_race, dynlockvars, monvars, nondvars>>

\* An idle path with a single check.
DynNextCheck_once(pc) == "exit_completed"

\* An idle path that starts over after its third check.
DynNextCheck_restart(pc) ==
    CASE pc = "check1" -> "check2"
      [] pc = "check2" -> "check3"
      [] pc = "check3" -> "check1"

\* The idle path: the position after a check that saw an empty queue.
DynNextCheck(pc) ==
    CASE pc = "check1" -> "check2"
      [] pc = "check2" -> "check3"
      [] pc = "check3" -> "exit_completed"

\* A sibling of w is inside fn on a task that will enqueue children.
SiblingAboutToEnqueue(w) ==
    \E s \in DynWorkerIds \ {w} :
        /\ dyn_pc[s] = "call"
        /\ ~DynFnRaises(dyn_task[s])
        /\ FnOut(dyn_task[s]).next_tasks # <<>>

\* worker, in `except Empty`: one `task_q.qsize() == 0` test (the sleeps lie
\* between the tests); the third empty observation breaks the loop, a
\* non-empty one goes back to the get.
DynCheck(w) ==
    /\ dyn_pc[w] \in {"check1", "check2", "check3"}
    /\ IF Len(task_queue) = 0
         THEN /\ dyn_pc' = [dyn_pc EXCEPT ![w] = DynNextCheck(dyn_pc[w])]
              /\ dyn_race' = (dyn_race \/ (dyn_pc[w] = "check3"
                                           /\ SiblingAboutToEnqueue(w)))
         ELSE /\ dyn_pc' = [dyn_pc EXCEPT ![w] = "get"]
              /\ UNCHANGED dyn_race
    /\ UNCHANGED <<dyn_n, dyn_num_workers, dyn_last_turn, dyn_raises,
                   task_queue, dyn_result_queue, active_workers,
                   total_completed, dyn_task, dyn_pending, local_completed,
                   dyn_cpc, dyn_all_results, dyn_enqueued, dyn_popped,
                   dynlockvars, monvars, nondvars>>

\* Counters without a lock: an acquire that never waits.
DynLockFree_none(lock) == TRUE

\* lock.acquire() goes through when no one holds the lock.
DynLockFree(lock) == lock = {}

\* worker, after its loop: `with completed_count.get_lock()` is entered and
\* `completed_count.value += local_completed` reads the counter.
DynLockCompleted(w) ==
    /\ dyn_pc[w] = "exit_completed"
    /\ DynLockFree(completed_lock)
    /\ completed_lock' = completed_lock \cup {w}
    /\ dyn_reg' = [dyn_reg EXCEPT ![w] = total_completed]
    /\ dyn_pc' = [dyn_pc EXCEPT ![w] = "write_completed"]
    /\ UNCHANGED <<dyn_n, dyn_num_workers, dyn_last_turn, dyn_raises,
                   task_queue, dyn_result_queue, active_workers,
                   total_completed, dyn_task, dyn_pending, local_completed,
                   dyn_cpc, dyn_all_results, dyn_enqueued, dyn_popped,
                   dyn_race, active_lock, monvars, nondvars>>

\* worker: `completed_count.value += local_completed` writes the sum back
\* and the with block is left.
DynExitCompleted(w) ==
    /\ dyn_pc[w] = "write_completed"
    /\ total_completed' = dyn_reg[w] + local_completed[w]
    /\ completed_lock' = completed_lock \ {w}
    /\ dyn_reg' = [dyn_reg EXCEPT ![w] = 0]
    /\ dyn_pc' = [dyn_pc EXCEPT ![w] = "exit_active"]
    /\ UNCHANGED <<dyn_n, dyn_num_workers, dyn_last_turn, dyn_raises,
                   task_queue, dyn_result_queue, active_workers, dyn_task,
                   dyn_pending, local_completed, dyn_cpc, dyn_all_results,
                   dyn_enqueued, dyn_popped, dyn_race, active_lock, monvars,
                   nondvars>>

\* worker: `with active_count.get_lock()` is entered and
\* `active_count.value -= 1` reads the counter.
DynLockActive(w) ==
    /\ dyn_pc[w] = "exit_active"
    /\ DynLockFree(active_lock)
    /\ active_lock' = active_lock \cup {w}
    /\ dyn_reg' = [dyn_reg EXCEPT ![w] = active_workers]
    /\ dyn_pc' = [dyn_pc EXCEPT ![w] = "write_active"]
    /\ UNCHANGED <<dyn_n, dyn_num_workers, dyn_last_turn, dyn_raises,
                   task_queue, dyn_result_queue, active_workers,
                   total_completed, dyn_task, dyn_pending, local_completed,
                   dyn_cpc, dyn_all_results, dyn_enqueued, dyn_popped,
                   dyn_race, completed_lock, monvars, nondvars>>

\* worker, last: `active_count.value -= 1` writes the difference back, the
\* with block is left and the process ends.
DynExitActive(w) ==
    /\ dyn_pc[w] = "write_active"
    /\ active_workers' = dyn_reg[w] - 1
    /\ active_lock' = active_lock \ {w}
    /\ dyn_reg' = [dyn_reg EXCEPT ![w] = 0]
    /\ dyn_pc' = [dyn_pc EXCEPT ![w] = "done"]
    /\ UNCHANGED <<dyn_n, dyn_num_workers, dyn_last_turn, dyn_raises,
                   task_queue, dyn_result_queue, total_completed, dyn_task,
                   dyn_pending, local_completed, dyn_cpc, dyn_all_results,
                   dyn_enqueued, dyn_popped, dyn_race, completed_lock,
                   monvars, nondvars>>

\* A monitor whose loop never ends.
MonGoesOn_always(active) == TRUE

\* progress_monitor: the loop condition `active_workers.value > 0`.
MonGoesOn(active) == active > 0

\* progress_monitor: the loop condition is evaluated and, when it holds, one
\* iteration of the loop runs: `current_count = total_completed.value`, the
\* update of the bar and the sleep.  Reading .value takes the counter's
\* lock.  The iteration is one step: the monitor writes nothing shared, and
\* what it reads of total_completed is the value at the moment of the read.
MonTest ==
    /\ mon_pc = "test"
    /\ DynLockFree(active_lock)
    /\ IF MonGoesOn(active_workers)
         THEN /\ DynLockFree(completed_lock)
              /\ last_count' = IF total_completed > last_count
                                 THEN total_completed ELSE last_count
              /\ mon_pc' = "test"
         ELSE /\ mon_pc' = "final"
              /\ UNCHANGED last_count
    /\ UNCHANGED <<dyn_n, dyn_num_workers, dyn_last_turn, dyn_raises,
                   task_queue, dyn_result_queue, active_workers,
                   total_completed, dyn_pc, dyn_task, dyn_pending,
                   local_completed, dyn_cpc, dyn_all_results, dyn_enqueued,
                   dyn_popped, dyn_race, dynlockvars, nondvars>>

\* progress_monitor, after the loop: `current_count = total_completed.value`
\* and the last update of the bar.
MonRead ==
    /\ mon_pc = "final"
    /\ DynLockFree(completed_lock)
    /\ last_count' = IF total_completed > last_count
                       THEN total_completed ELSE last_count
    /\ mon_pc' = "done"
    /\ UNCHANGED <<dyn_n, dyn_num_workers, dyn_last_turn, dyn_raises,
                   task_queue, dyn_result_queue, active_workers,
                   total_completed, dyn_pc, dyn_task, dyn_pending,
                   local_completed, dyn_cpc, dyn_all_results, dyn_enqueued,
                   dyn_popped, dyn_race, dynlockvars, nondvars>>

DynAllDone == \A w \in DynWorkerIds : dyn_pc[w] = "done"

\* wrapper: `for p in processes: p.join()` ends once every worker process
\* has ended; monitor_thread.join(timeout=2) then returns whether or not
\* the monitor has ended.
DynJoin ==
    /\ dyn_cpc = "join"
    /\ DynAllDone
    /\ dyn_cpc' = "collect"
    /\ UNCHANGED <<dyn_n, dyn_num_workers, dyn_last_turn, dyn_raises,
                   task_queue, dyn_result_queue, active_workers,
                   total_completed, dyn_pc, dyn_task, dyn_pending,
                   local_completed, dyn_all_results, dyn_enqueued, dyn_popped,
                   dyn_race, dynlockvars, monvars, nondvars>>

\* wrapper: one iteration of `while not result_queue.empty()`.
DynCollect ==
    /\ dyn_cpc = "collect"
    /\ dyn_result_queue # <<>>
    /\ dyn_all_results' = Append(dyn_all_results, Head(dyn_result_queue))
    /\ dyn_result_queue' = Tail(dyn_result_queue)
    /\ UNCHANGED <<dyn_n, dyn_num_workers, dyn_last_turn, dyn_raises,
                   task_queue, active_workers, total_completed, dyn_pc,
                   dyn_task, dyn_pending, local_completed, dyn_cpc,
                   dyn_enqueued, dyn_popped, dyn_race, dynlockvars, monvars, nondvars>>

\* wrapper: the result queue is empty: return all_results.
DynReturn ==
    /\ dyn_cpc = "collect"
    /\ dyn_result_queue = <<>>
    /\ dyn_cpc' = "returned"
    /\ UNCHANGED <<dyn_n, dyn_num_workers, dyn_last_turn, dyn_raises,
                   task_queue, dyn_result_queue, active_workers,
                   total_completed, dyn_pc, dyn_task, dyn_pending,
                   local_completed, dyn_all_results, dyn_enqueued, dyn_popped,
                   dyn_race, dynlockvars, monvars, nondvars>>

DynNext ==
    \/ DynStart
    \/ \E w \in DynWorkerIds : DynGet(w)
    \/ \E w \in DynWorkerIds : DynGetEmpty(w)
    \/ \E w \in DynWorkerIds : DynCall(w)
    \/ \E w \in DynWorkerIds : DynPutResult(w)
    \/ \E w \in DynWorkerIds : DynPutNext(w)
    \/ \E w \in DynWorkerIds : DynCheck(w)
    \/ \E w \in DynWorkerIds : DynLockCompleted(w)
    \/ \E w \in DynWorkerIds : DynExitCompleted(w)
    \/ \E w \in DynWorkerIds : DynLockActive(w)
    \/ \E w \in DynWorkerIds : DynExitActive(w)
    \/ MonTest
    \/ MonRead
    \/ DynJoin
    \/ DynCollect
    \/ DynReturn

RunDyn ==
    /\ executor = "dyn"
    /\ DynInit
    /\ QFIdle
    /\ PreIdle
    /\ DedupIdle
    /\ PackIdle
    /\ HashIdle
    /\ ReduceIdle
    /\ ExportIdle

InitDyn == RunDyn /\ ArgsInit(NoKwargs)

SpecDyn == InitDyn /\ [][DynNext]_vars

(***************************************************************************)
(* process_turn_hook: the caller's reduction of the result list by item_id *)
(***************************************************************************)
\* A reduction that keeps the record of the lowest turn.
KeepsNew_lowest(item_results, r) ==
    \/ r.item_id \notin DOMAIN item_results
    \/ r.turn < item_results[r.item_id].turn

\* A reduction that keeps the record it saw first.
KeepsNew_first(item_results, r) == r.item_id \notin DOMAIN item_results

\* `if item_id not in item_results or turn > item_results[item_id]['turn']`
KeepsNew(item_results, r) ==
    \/ r.item_id \notin DOMAIN item_results
    \/ r.turn > item_results[r.item_id].turn

\* One iteration of `for result in results`.
ReduceStep(item_results, r) ==
    IF KeepsNew(item_results, r)
      THEN [k \in DOMAIN item_results \cup {r.item_id} |->
               IF k = r.item_id THEN r ELSE item_results[k]]
      ELSE item_results

\* item_results after the loop over the first n results.
RECURSIVE ReduceUpTo(_, _)
ReduceUpTo(results, n) ==
    IF n = 0 THEN <<>>
    ELSE ReduceStep(ReduceUpTo(results, n - 1), results[n])

item_results == ReduceUpTo(dyn_all_results, Len(dyn_all_results))

(***************************************************************************)
(* process_turn_hook on any result list: the loop over the results, one    *)
(* iteration a step.                                                       *)
(***************************************************************************)
MaxRdItems == 2
MaxRdTurn == 2
MaxResults == 3

\* The records a result list can hold: {item_id, turn, result}, the result
\* standing for the rest of the record.
RdRecords ==
    [item_id : 1..MaxRdItems, turn : 0..MaxRdTurn, result : {"partial", "final"}]

\* The result lists whose (item_id, turn) pairs are pairwise distinct.
DistinctPairs(results) ==
    \A j, k \in DOMAIN results :
        (results[j].item_id = results[k].item_id
            /\ results[j].turn = results[k].turn) => j = k

ReduceInit ==
    /\ rd_results \in {l \in SeqsUpTo(RdRecords, MaxResults) : DistinctPairs(l)}
    /\ rd_pos = 0
    /\ rd_item_results = <<>>

\* One iteration of `for result in results`.
ReduceLoop ==
    /\ rd_pos < Len(rd_results)
    /\ rd_pos' = rd_pos + 1
    /\ rd_item_results' = ReduceStep(rd_item_results, rd_results[rd_pos + 1])
    /\ UNCHANGED <<rd_results, nonrvars>>

ReduceNext == ReduceLoop

InitReduce ==
    /\ executor = "reduce"
    /\ ReduceInit
    /\ QFIdle
    /\ PreIdle
    /\ DynIdle
    /\ DedupIdle
    /\ PackIdle
    /\ HashIdle
    /\ ExportIdle
    /\ ArgsInit(NoKwargs)

SpecReduce == InitReduce /\ [][ReduceNext]_vars

\* The list results in the order p.
Permuted(results, p) == [k \in DOMAIN results |-> results[p[k]]]

\* The map from each item_id of the list to its record of maximum turn.
MaxTurnMap(results) ==
    [i \in {results[k].item_id : k \in DOMAIN results} |->
        CHOOSE r \in {results[k] : k \in DOMAIN results} :
            /\ r.item_id = i
            /\ \A k \in DOMAIN results :
                  results[k].item_id = i => results[k].turn <= r.turn]

\* C38: for a result list with pairwise distinct (item_id, turn) pairs, once
\* the loop has run over the list, item_results maps each item_id of the list
\* to its record of maximum turn, and the reduction of every permutation of
\* the list is that same map.
C38_ReductionOrderIndependent ==
    rd_pos = Len(rd_results) =>
        /\ rd_item_results = MaxTurnMap(rd_results)
        /\ \A p \in Permutations(DOMAIN rd_results) :
              ReduceUpTo(Permuted(rd_results, p), Len(rd_results))
                  = rd_item_results

\* C38 witness: the loop has run over three records of one item whose turns
\* come neither in ascending nor in descending order.
C38_Witness ==
    /\ rd_pos = 3
    /\ Len(rd_results) = 3
    /\ rd_results[1].item_id = rd_results[2].item_id
    /\ rd_results[2].item_id = rd_results[3].item_id
    /\ rd_results[2].turn > rd_results[1].turn
    /\ rd_results[2].turn > rd_results[3].turn
    /\ rd_item_results[rd_results[1].item_id] = rd_results[2]

(***************************************************************************)
(* Vocabulary of the dynamic scheduler claims.                             *)
(***************************************************************************)
\* Tasks that were put on the task queue and that no worker ever popped.
DynLost == dyn_enqueued \ dyn_popped

\* The result stream: what the caller has collected, then what is queued.
ResultStream == dyn_all_results \o dyn_result_queue

C7_HighestTurnWins ==
    \A x \in DynItemIds :
        (/\ dyn_cpc = "returned"
         /\ dyn_last_turn[x] = 1
         /\ <<x, 0>> \notin dyn_raises
         /\ <<x, 1>> \notin dyn_raises)
            => /\ \A t \in {0, 1} :
                     Cardinality({k \in 1..Len(dyn_all_results) :
                         dyn_all_results[k].task_id = <<x, t>>}) = 1
               /\ x \in DOMAIN item_results
               /\ item_results[x].turn = 1
               /\ item_results[x].result = "final"

\* C7 witness: the scheduler has returned from such a run with two workers.
C7_Witness ==
    /\ dyn_cpc = "returned"
    /\ dyn_num_workers >= 2
    /\ \E x \in DynItemIds :
          /\ dyn_last_turn[x] = 1
          /\ <<x, 0>> \notin dyn_raises
          /\ <<x, 1>> \notin dyn_raises
          /\ item_results[x].result = "final"

\* C8: a task's result record is put before any of its next tasks: every
\* task of a later turn that was ever enqueued has its parent's record in
\* the result stream, and in the stream no record of an item comes before a
\* record of an earlier turn of that item.
C8_ParentRecordFirst ==
    /\ \A id \in dyn_enqueued :
          id[2] > 0 => \E k \in 1..Len(ResultStream) :
                          ResultStream[k].task_id = <<id[1], id[2] - 1>>
    /\ \A j, k \in 1..Len(ResultStream) :
          (j < k /\ ResultStream[j].item_id = ResultStream[k].item_id)
              => ResultStream[j].turn < ResultStream[k].turn

\* C8 witness: with two workers, the record of a child task is in the result
\* stream, behind the record of its parent.
C8_Witness ==
    /\ dyn_num_workers >= 2
    /\ \E j, k \in 1..Len(ResultStream) :
          /\ j < k
          /\ ResultStream[j].item_id = ResultStream[k].item_id
          /\ ResultStream[k].turn = ResultStream[j].turn + 1

\* The records of task `id` in the result stream.
RecordsOf(id) == {k \in 1..Len(ResultStream) : ResultStream[k].task_id = id}

\* C13: the step of a worker whose fn call raises takes the worker back to
\* its pop (it has not left its loop), puts nothing on the result queue or
\* on the task queue and leaves the worker's completed count as it was; and
\* at every moment a task on which fn raises has no result record and its
\* next-turn task was never enqueued.
C13_RaiseSwallowed ==
    /\ [][\A w \in DynWorkerIds :
            (/\ dyn_pc[w] = "call"
             /\ DynFnRaises(dyn_task[w])
             /\ dyn_pc'[w] # dyn_pc[w])
                => /\ dyn_pc'[w] = "get"
                   /\ dyn_result_queue' = dyn_result_queue
                   /\ task_queue' = task_queue
                   /\ local_completed'[w] = local_completed[w]]_vars
    /\ [](\A id \in dyn_raises :
            /\ RecordsOf(id) = {}
            /\ <<id[1], id[2] + 1>> \notin dyn_enqueued)

\* C13 witness: the only worker popped a task on which fn raises and is now
\* inside fn on a task it popped after it.
C13_Witness ==
    /\ dyn_num_workers = 1
    /\ dyn_pc[0] = "call"
    /\ \E id \in dyn_raises :
          /\ id \in dyn_popped
          /\ dyn_task[0].task_id # id

\* The sum of local_completed over the workers of S.
RECURSIVE SumLocal(_)
SumLocal(S) ==
    IF S = {} THEN 0
    ELSE LET w == CHOOSE x \in S : TRUE
         IN  local_completed[w] + SumLocal(S \ {w})

\* The workers that have added their local_completed to the shared counter.
Flushed ==
    {w \in DynWorkerIds : dyn_pc[w] \in {"exit_active", "write_active", "done"}}

\* C14: a worker between the read and the write of its
\* `completed_count.value += local_completed` holds the counter's lock and
\* no two workers hold it; the counter is at every moment the sum of the
\* local counts of the workers that have made their update (none is lost);
\* and once all workers have exited it is the number of tasks whose fn call
\* returned without raising.
C14_CompletedCounter ==
    /\ Cardinality(completed_lock) <= 1
    /\ \A w \in DynWorkerIds :
          dyn_pc[w] = "write_completed" <=> w \in completed_lock
    /\ total_completed = SumLocal(Flushed)
    /\ DynAllDone => total_completed = Cardinality(dyn_popped \ dyn_raises)

\* C14 witness: all workers have exited, two of them with a task of their
\* own to add to the counter.
C14_Witness ==
    /\ DynAllDone
    /\ \E v, w \in DynWorkerIds :
          v # w /\ local_completed[v] >= 1 /\ local_completed[w] >= 1
    /\ total_completed >= 2

InitAll == InitMP \/ InitMT \/ InitPre \/ InitDyn

AllNext ==
    \/ executor = "mp" /\ MPNext
    \/ executor = "mt" /\ MTNext
    \/ executor = "pre" /\ PreNext
    \/ executor = "dyn" /\ DynNext

SpecAll == InitAll /\ [][AllNext]_vars

\* The fn invocations in progress, each with the worker that runs it: the
\* queue-fed workers inside fn on the item they hold, the static-partition
\* processes inside func on their sub-list, the dynamic workers inside func
\* on their task.
InProgressQF == {<<w, wdata[w]>> : w \in {v \in DOMAIN wpc : wpc[v] = "call"}}
InProgressPre == {pid \in DOMAIN pre_ppc : pre_ppc[pid] = "run"}
InProgressDyn ==
    {<<w, dyn_task[w].task_id>> : w \in {v \in DOMAIN dyn_pc : dyn_pc[v] = "call"}}

\* C16: in every executor the number of fn invocations in progress is at
\* most num_workers, the workers that run them are among 0..num_workers-1,
\* and no worker runs two of them at once.
C16_BoundedConcurrency ==
    /\ Cardinality(InProgressQF) <= num_workers
    /\ Cardinality(InProgressPre) <= pre_num_workers
    /\ Cardinality(InProgressDyn) <= dyn_num_workers
    /\ \A x \in InProgressQF : x[1] \in 0..(num_workers - 1)
    /\ InProgressPre \subseteq 0..(pre_num_workers - 1)
    /\ \A x \in InProgressDyn : x[1] \in 0..(dyn_num_workers - 1)
    /\ \A w \in DOMAIN wpc :
          Cardinality({x \in InProgressQF : x[1] = w}) <= 1
    /\ \A w \in DOMAIN dyn_pc :
          Cardinality({x \in InProgressDyn : x[1] = w}) <= 1

\* C16 witness: as many fn invocations as there are workers, more than one,
\* are in progress at once in the process variant of the queue-fed executor.
C16_Witness ==
    /\ executor = "mp"
    /\ num_workers >= 2
    /\ Cardinality(InProgressQF) = num_workers

(***************************************************************************)
(* A call of any one of the four executors by a caller who passes two      *)
(* fixed keyword arguments: para1 and a process_id of its own.             *)
(***************************************************************************)
CallerKwargs == ("para1" :> 1 @@ "process_id" :> 7)

InitArgs ==
    /\ RunMP \/ RunMT \/ RunPre \/ RunDyn
    /\ ArgsInit(CallerKwargs)

SpecArgs == InitArgs /\ [][AllNext]_vars

\* The workers of the executor that was called.
CalledWorkerIds ==
    IF executor = "pre" THEN PreWorkerIds
    ELSE IF executor = "dyn" THEN DynWorkerIds
    ELSE WorkerIds

\* C28 (as stated): every fn invocation of worker w has received
\* process_id = w, w being one of the indices 0..workers-1, and every
\* keyword argument of the caller with the caller's value.
C28_KwargsUnchanged ==
    \A w \in DOMAIN fn_kwargs :
        /\ w \in CalledWorkerIds
        /\ fn_kwargs[w]["process_id"] = w
        /\ \A k \in DOMAIN kwargs :
              k \in DOMAIN fn_kwargs[w] /\ fn_kwargs[w][k] = kwargs[k]

\* C28 (amended): every fn invocation of worker w has received
\* process_id = w, w being one of the indices 0..workers-1, and beside it
\* exactly the caller's keyword arguments with the caller's values, except
\* a process_id of the caller's, which the worker index replaces.
C28_KwargsButProcessId ==
    \A w \in DOMAIN fn_kwargs :
        /\ w \in CalledWorkerIds
        /\ CalledWorkerIds = 0..(Cardinality(CalledWorkerIds) - 1)
        /\ fn_kwargs[w]["process_id"] = w
        /\ DOMAIN fn_kwargs[w] = DOMAIN kwargs \cup {"process_id"}
        /\ \A k \in DOMAIN kwargs \ {"process_id"} :
              fn_kwargs[w][k] = kwargs[k]

\* Two workers of the dynamic scheduler have invoked fn for a caller who
\* passed para1 and a process_id.
C28_Witness ==
    /\ executor = "dyn"
    /\ {"para1", "process_id"} \subseteq DOMAIN kwargs
    /\ Cardinality(DOMAIN fn_kwargs) >= 2

(***************************************************************************)
(* The dynamic scheduler: the next tasks of a call and the idle path.      *)
(***************************************************************************)
\* The workers that have task id in hand: popped, and not yet through the
\* steps that follow the fn call.
DynHolders(id) ==
    {w \in DynWorkerIds :
        /\ dyn_task[w].task_id = id
        /\ dyn_pc[w] \in {"call", "put_result", "put_next"}}

\* The ids of fn's next_tasks for the task with this id.
NextTaskIds(id) ==
    LET out == FnOut(Task(id[1], id[2])).next_tasks
    IN  {out[k].task_id : k \in DOMAIN out}

DynChecks == {"check1", "check2", "check3"}

C30_IdleExit ==
    /\ [][\A w \in DynWorkerIds :
            dyn_pc'[w] # dyn_pc[w] =>
              /\ dyn_pc'[w] = "check1"
                    => dyn_pc[w] = "get" /\ Len(task_queue) = 0
              /\ dyn_pc'[w] = "check2"
                    => dyn_pc[w] = "check1" /\ Len(task_queue) = 0
              /\ dyn_pc'[w] = "check3"
                    => dyn_pc[w] = "check2" /\ Len(task_queue) = 0
              /\ dyn_pc'[w] = "exit_completed"
                    => dyn_pc[w] = "check3" /\ Len(task_queue) = 0
              /\ (dyn_pc[w] \in DynChecks /\ Len(task_queue) > 0)
                    => dyn_pc'[w] = "get"]_vars
    /\ []((dyn_n > 0 /\ dyn_cpc \in {"collect", "returned"}) => DynAllDone)

\* A worker is at its second or third check while the queue holds a task
\* that a sibling has put in the meantime.
C30_Witness ==
    \E w \in DynWorkerIds :
        /\ dyn_pc[w] \in {"check2", "check3"}
        /\ task_queue # <<>>

\* C31: while the pool is running the shared completed-task counter tracks
\* the tasks completed so far: whenever a worker is at its pop, the tasks it
\* has completed are in the shared counter, so the counter is at least the
\* sum of the local counts of the workers that wait at their pop.
C31_CounterTracksProgress ==
    total_completed >= SumLocal({w \in DynWorkerIds : dyn_pc[w] = "get"})

\* The dynamic scheduler with its processes and threads kept running: as
\* long as some worker, the monitor or the caller can take a step, one of
\* them does.  fn returns or raises (DynCall) and the task tree is the
\* finite set AllTasks.
SpecDynFair == SpecDyn /\ WF_vars(DynNext)

\* The caller has returned every record that a worker put.
DynReturnedAll ==
    /\ dyn_cpc = "returned"
    /\ dyn_result_queue = <<>>
    /\ Len(dyn_all_results) = Cardinality(dyn_popped \ dyn_raises)

\* C34: with a finite task tree and fn calls that return or raise, every
\* run ends: the caller returns the collected results and, when there was a
\* task, every worker has exited, no task is left on the queue and the
\* monitor has stopped; and it stays so.
C34_DynTerminates ==
    <>[](/\ DynReturnedAll
         /\ dyn_n > 0 => (DynAllDone /\ task_queue = <<>> /\ mon_pc = "done"))

\* C34 witness: a run of two workers has ended in which fn raised on one
\* task and returned on another, one of the workers leaving without a task
\* completed.
C34_Witness ==
    /\ DynReturnedAll
    /\ dyn_num_workers >= 2
    /\ DynAllDone
    /\ mon_pc = "done"
    /\ dyn_raises # {}
    /\ dyn_raises \subseteq dyn_popped
    /\ dyn_all_results # <<>>
    /\ \E w \in DynWorkerIds : local_completed[w] = 0

(***************************************************************************)
(* deduplicate_media_files_byhash (zip_dataset.py), with the thread hash   *)
(* workers (use_process = False, the default) and hash_threads at least    *)
(* the size of the largest size group, so that each file of a group has a  *)
(* worker of its own.  The src_paths of the FileRecords are pairwise       *)
(* distinct and every file exists and has a size.                          *)
(***************************************************************************)
MaxFiles == 2

\* File sizes are counted in MiB; get_file_hash_fast samples files from this
\* size on.
LargeFileMiB == 10

\* File contents: the size, the bytes inside the three windows that the
\* sampled hash reads, and the bytes outside them.  Two small files of the
\* same size, and two large files of the same size that differ outside the
\* windows only.
ContentSet ==
    {[size |-> 1, sampled |-> "p", other |-> "u"],
     [size |-> 1, sampled |-> "q", other |-> "u"],
     [size |-> LargeFileMiB, sampled |-> "p", other |-> "u"],
     [size |-> LargeFileMiB, sampled |-> "p", other |-> "v"]}

DestKeys == {<<"A", "images">>, <<"B", "images">>, <<"A", "videos">>}

FileRecords ==
    {[content |-> c, dataset_name |-> d[1], media_type |-> d[2]] :
        c \in ContentSet, d \in DestKeys}

FileIds == 1..Len(all_media_files)

Suffix(media_type) == IF media_type = "images" THEN ".jpg" ELSE ".mp4"

\* Python's None as a hash.
NoHash == [tier |-> "none", size |-> 0, sampled |-> "", other |-> ""]

\* A hasher that reads every file whole.
ContentHash_whole(c) ==
    IF c.size = 0
      THEN [tier |-> "empty", size |-> 0, sampled |-> "", other |-> ""]
    ELSE [tier |-> "full", size |-> c.size, sampled |-> c.sampled,
          other |-> c.other]

\* get_file_hash_fast on a readable file: "empty_file" for size 0, the MD5
\* of the whole content below 10 MiB, "fast_" and the MD5 of the sampled
\* windows and the size from 10 MiB on.  MD5 is taken to be injective on
\* what it is fed.
ContentHash(c) ==
    IF c.size = 0
      THEN [tier |-> "empty", size |-> 0, sampled |-> "", other |-> ""]
    ELSE IF c.size < LargeFileMiB
      THEN [tier |-> "full", size |-> c.size, sampled |-> c.sampled,
            other |-> c.other]
    ELSE [tier |-> "fast", size |-> c.size, sampled |-> c.sampled,
          other |-> ""]

\* get_file_hash_fast(src_path): None when reading the file fails.
get_file_hash_fast(f) ==
    IF f \in hash_fails THEN NoHash
    ELSE ContentHash(all_media_files[f].content)

\* compute_hash_for_file_zip_thread(file_info): get_file_hash_fast has
\* swallowed any failure, so the status is "success" also with no hash.
HashResult(f) ==
    [status |-> "success", src_path |-> f, file_hash |-> get_file_hash_fast(f)]

\* The keys of unique_files: the file hash, or f"size_{file_size}_{src_path}"
\* for the only file of its size.
HashKey(h) == [kind |-> "hash", hash |-> h, size |-> 0, path |-> 0]
SizeKey(size, f) == [kind |-> "size", hash |-> NoHash, size |-> size, path |-> f]

\* d[k] = v on a dict.
DictPut(d, k, v) == [x \in DOMAIN d \cup {k} |-> IF x = k THEN v ELSE d[x]]

\* First phase: size_groups after the loop over the first n files.
RECURSIVE GroupUpTo(_, _)
GroupUpTo(files, n) ==
    IF n = 0 THEN <<>>
    ELSE LET g == GroupUpTo(files, n - 1)
             hit == {k \in 1..Len(g) :
                        files[g[k][1]].content.size = files[n].content.size}
         IN  IF hit = {} THEN Append(g, <<n>>)
             ELSE [g EXCEPT ![CHOOSE k \in hit : TRUE] = Append(@, n)]

\* f"MediaFiles/{media_type}/{idx}{suffix}"
RelPath(media_type, idx, suffix) ==
    [media_type |-> media_type, idx |-> idx, suffix |-> suffix]

\* A second phase whose counters start over with every group.
DedupState_fresh_counters ==
    [group_hash_map |-> <<>>, media_counters |-> [dk \in DestKeys |-> 0],
     unique_files |-> unique_files, path_mapping |-> path_mapping]

\* The dicts the second phase works on.
DedupState ==
    [group_hash_map |-> <<>>, media_counters |-> media_counters,
     unique_files |-> unique_files, path_mapping |-> path_mapping]

\* A new unique file f under `key`: the counter of its dataset and media
\* type is incremented and gives the idx; the entry and the mapping of f
\* are recorded (in group_hash_map too when the file was hashed).
NewUnique(st, f, key, hashed) ==
    LET file == all_media_files[f]
        dk == <<file.dataset_name, file.media_type>>
        idx == st.media_counters[dk] + 1
        entry == [media_type |-> file.media_type, src_path |-> f, idx |-> idx,
                  suffix |-> Suffix(file.media_type),
                  size |-> file.content.size,
                  original_dataset |-> file.dataset_name]
    IN  [group_hash_map |-> IF hashed THEN DictPut(st.group_hash_map, key, entry)
                            ELSE st.group_hash_map,
         media_counters |-> [st.media_counters EXCEPT ![dk] = idx],
         unique_files |-> DictPut(st.unique_files, key, entry),
         path_mapping |-> DictPut(st.path_mapping, f,
                             RelPath(file.media_type, idx,
                                     Suffix(file.media_type)))]

\* A reducer that takes every hashed file for a new unique file.
IsNewHash_always(group_hash_map, h) == TRUE

\* `if file_hash not in group_hash_map`
IsNewHash(group_hash_map, h) == HashKey(h) \notin DOMAIN group_hash_map

\* One iteration of `for result in hash_results`: a result without a hash
\* is skipped; the first file of a hash becomes a unique file; a later one
\* is mapped to the path of the entry that is there.
DedupStep(st, result) ==
    IF result.status # "success" \/ result.file_hash = NoHash
      THEN st
    ELSE IF IsNewHash(st.group_hash_map, result.file_hash)
      THEN NewUnique(st, result.src_path, HashKey(result.file_hash), TRUE)
    ELSE LET existing_info == st.group_hash_map[HashKey(result.file_hash)]
         IN  [st EXCEPT !.path_mapping =
                 DictPut(@, result.src_path,
                         RelPath(existing_info.media_type, existing_info.idx,
                                 existing_info.suffix))]

\* A reducer that walks the results from the last to the first.
RECURSIVE DedupUpTo_reversed(_, _)
DedupUpTo_reversed(results, n) ==
    IF n = 0 THEN DedupState
    ELSE DedupStep(DedupUpTo_reversed(results, n - 1),
                   results[Len(results) + 1 - n])

\* The dicts after the loop over the first n results.
RECURSIVE DedupUpTo(_, _)
DedupUpTo(results, n) ==
    IF n = 0 THEN DedupState
    ELSE DedupStep(DedupUpTo(results, n - 1), results[n])

DedupInit ==
    /\ all_media_files \in SeqsUpTo(FileRecords, MaxFiles)
    /\ hash_fails \in SUBSET FileIds
    /\ dd_pc = "start"
    /\ size_groups = <<>>
    /\ dd_g = 0
    /\ hash_pending = {}
    /\ hash_results = <<>>
    /\ unique_files = <<>>
    /\ path_mapping = <<>>
    /\ media_counters = [dk \in DestKeys |-> 0]

\* First phase: the files are grouped by size.
DedupGroup ==
    /\ dd_pc = "start"
    /\ size_groups' = GroupUpTo(all_media_files, Len(all_media_files))
    /\ dd_g' = 1
    /\ dd_pc' = "groups"
    /\ UNCHANGED <<all_media_files, hash_fails, hash_pending, hash_results,
                   unique_files, path_mapping, media_counters, nonzvars>>

\* Second phase, a group of one file: it is unique without a hash.
DedupSingle ==
    /\ dd_pc = "groups"
    /\ dd_g <= Len(size_groups)
    /\ Len(size_groups[dd_g]) = 1
    /\ LET f == size_groups[dd_g][1]
           st == NewUnique(DedupState, f,
                           SizeKey(all_media_files[f].content.size, f), FALSE)
       IN  /\ unique_files' = st.unique_files
           /\ path_mapping' = st.path_mapping
           /\ media_counters' = st.media_counters
    /\ dd_g' = dd_g + 1
    /\ UNCHANGED <<all_media_files, hash_fails, dd_pc, size_groups,
                   hash_pending, hash_results, nonzvars>>

\* Second phase, a group of several files: process_hash_group_concurrent_zip
\* hands them to the hash workers.
DedupHashStart ==
    /\ dd_pc = "groups"
    /\ dd_g <= Len(size_groups)
    /\ Len(size_groups[dd_g]) > 1
    /\ hash_pending' = {size_groups[dd_g][k] : k \in 1..Len(size_groups[dd_g])}
    /\ hash_results' = <<>>
    /\ dd_pc' = "hashing"
    /\ UNCHANGED <<all_media_files, hash_fails, size_groups, dd_g,
                   unique_files, path_mapping, media_counters, nonzvars>>

\* A hash worker delivers the result of file f: the results come in the
\* order in which the workers finish.
HashDone(f) ==
    /\ dd_pc = "hashing"
    /\ f \in hash_pending
    /\ hash_pending' = hash_pending \ {f}
    /\ hash_results' = Append(hash_results, HashResult(f))
    /\ UNCHANGED <<all_media_files, hash_fails, dd_pc, size_groups, dd_g,
                   unique_files, path_mapping, media_counters, nonzvars>>

\* process_hash_group_concurrent_zip: all results are in; the loop over them.
DedupReduce ==
    /\ dd_pc = "hashing"
    /\ hash_pending = {}
    /\ LET st == DedupUpTo(hash_results, Len(hash_results))
       IN  /\ unique_files' = st.unique_files
           /\ path_mapping' = st.path_mapping
           /\ media_counters' = st.media_counters
    /\ dd_g' = dd_g + 1
    /\ dd_pc' = "groups"
    /\ UNCHANGED <<all_media_files, hash_fails, size_groups, hash_pending,
                   hash_results, nonzvars>>

\* Every group is done: unique_files and path_mapping are returned.
DedupReturn ==
    /\ dd_pc = "groups"
    /\ dd_g > Len(size_groups)
    /\ dd_pc' = "returned"
    /\ UNCHANGED <<all_media_files, hash_fails, size_groups, dd_g,
                   hash_pending, hash_results, unique_files, path_mapping,
                   media_counters, nonzvars>>

DedupNext ==
    \/ DedupGroup
    \/ DedupSingle
    \/ DedupHashStart
    \/ \E f \in FileIds : HashDone(f)
    \/ DedupReduce
    \/ DedupReturn

InitDedup ==
    /\ executor = "dedup"
    /\ DedupInit
    /\ QFIdle
    /\ PreIdle
    /\ DynIdle
    /\ PackIdle
    /\ HashIdle
    /\ ReduceIdle
    /\ ExportIdle
    /\ ArgsInit(NoKwargs)

SpecDedup == InitDedup /\ [][DedupNext]_vars

(***************************************************************************)
(* Vocabulary of the deduplicator claims.                                  *)
(***************************************************************************)
Content(f) == all_media_files[f].content

\* The files that went to the hash workers: those of a size group of more
\* than one member.
InHashGroup(f) ==
    \E k \in 1..Len(size_groups) :
        /\ Len(size_groups[k]) > 1
        /\ \E j \in 1..Len(size_groups[k]) : size_groups[k][j] = f

\* The entries of unique_files whose src_path is f.
EntriesOf(f) == {k \in DOMAIN unique_files : unique_files[k].src_path = f}

\* C17 (as claimed): once the deduplicator has returned, every file of a
\* size group of several members whose hash computation failed has a
\* UniqueFileEntry of its own and a PathMapping entry.
C17_FailedHashKeptUnique ==
    dd_pc = "returned" =>
        \A f \in hash_fails :
            InHashGroup(f) => (EntriesOf(f) # {} /\ f \in DOMAIN path_mapping)

\* C18: two files of identical content that were both hashed successfully
\* never have different path_mapping targets, and once the deduplicator has
\* returned both have a target, whatever order the hash workers finished in.
C18_SameContentSameTarget ==
    \A f, g \in FileIds :
        (/\ f # g
         /\ Content(f) = Content(g)
         /\ f \notin hash_fails
         /\ g \notin hash_fails)
            => /\ (f \in DOMAIN path_mapping /\ g \in DOMAIN path_mapping)
                      => path_mapping[f] = path_mapping[g]
               /\ dd_pc = "returned"
                      => (f \in DOMAIN path_mapping /\ g \in DOMAIN path_mapping)

\* C18 witness: the deduplicator has returned a common target for two files
\* of identical content from different datasets, the later of which was
\* hashed first.
C18_Witness ==
    /\ dd_pc = "returned"
    /\ \E f, g \in FileIds :
          /\ f < g
          /\ Content(f) = Content(g)
          /\ all_media_files[f].dataset_name # all_media_files[g].dataset_name
          /\ hash_fails = {}
          /\ hash_results # <<>>
          /\ hash_results[1].src_path = g
          /\ f \in DOMAIN path_mapping
          /\ g \in DOMAIN path_mapping

\* C19 (as claimed): once the deduplicator has returned, two files of
\* differing content whose hashes differ (no collision) and that both have
\* a path_mapping target have different targets.
C19_DifferentContentDifferentTarget ==
    dd_pc = "returned" =>
        \A f, g \in DOMAIN path_mapping :
            (/\ Content(f) # Content(g)
             /\ ContentHash(Content(f)) # ContentHash(Content(g)))
                => path_mapping[f] # path_mapping[g]

\* C20 (as claimed): once the deduplicator has returned, unique_files has as
\* many entries as the files have distinct contents.
C20_UniqueCountIsK ==
    dd_pc = "returned" =>
        Cardinality(DOMAIN unique_files) =
            Cardinality({Content(f) : f \in FileIds})

\* The step in which process_hash_group_concurrent_zip reduces the hash
\* results of the group at hand.
ReducesGroup == dd_pc = "hashing" /\ dd_pc' = "groups"

\* The hashes the workers delivered for the group.
DeliveredHashes ==
    {hash_results[k].file_hash : k \in DOMAIN hash_results} \ {NoHash}

\* The first file with hash h in the group's input order.
FirstInGroup(h) ==
    LET grp == size_groups[dd_g]
    IN  grp[CHOOSE k \in DOMAIN grp :
                /\ get_file_hash_fast(grp[k]) = h
                /\ \A j \in 1..(k - 1) : get_file_hash_fast(grp[j]) # h]

\* The first file with hash h in the order in which the results came.
FirstDelivered(h) ==
    hash_results[CHOOSE k \in DOMAIN hash_results :
                    /\ hash_results[k].file_hash = h
                    /\ \A j \in 1..(k - 1) : hash_results[j].file_hash # h
                ].src_path

\* The idx values handed out so far, over all datasets and media types.
RECURSIVE SumCounters(_, _)
SumCounters(counters, keys) ==
    IF keys = {} THEN 0
    ELSE LET dk == CHOOSE x \in keys : TRUE
         IN  counters[dk] + SumCounters(counters, keys \ {dk})

\* After the reduction of a group, file c holds the canonical slot of hash
\* h, and every file delivered with h has the destination of that slot.
HoldsSlot(c, h) ==
    /\ unique_files'[HashKey(h)].src_path = c
    /\ path_mapping'[c] = RelPath(unique_files'[HashKey(h)].media_type,
                                  unique_files'[HashKey(h)].idx,
                                  unique_files'[HashKey(h)].suffix)
    /\ \A k \in DOMAIN hash_results :
          hash_results[k].file_hash = h
              => path_mapping'[hash_results[k].src_path] = path_mapping'[c]

\* C32 (as stated): when a same-size group is reduced, the canonical slot of
\* each hash goes to the hash's first occurrence in the group's input order,
\* every occurrence is mapped to the destination of that slot, and the
\* group consumes one idx per hash, none for a later occurrence.
C32_FirstInInputOrderWins ==
    [][ReducesGroup =>
          /\ \A h \in DeliveredHashes : HoldsSlot(FirstInGroup(h), h)
          /\ SumCounters(media_counters', DestKeys)
                = SumCounters(media_counters, DestKeys)
                      + Cardinality(DeliveredHashes)]_vars

\* C32 (amended): the canonical slot of each hash goes to the hash's first
\* occurrence in the order in which the hash workers delivered their
\* results; every occurrence is mapped to the destination of that slot, and
\* the group consumes one idx per hash, none for a later occurrence.
C32_FirstDeliveredWins ==
    [][ReducesGroup =>
          /\ \A h \in DeliveredHashes : HoldsSlot(FirstDelivered(h), h)
          /\ SumCounters(media_counters', DestKeys)
                = SumCounters(media_counters, DestKeys)
                      + Cardinality(DeliveredHashes)]_vars

\* C32 witness: a group of two files of one hash has been reduced; the
\* later file of the input was delivered first and holds the slot, the
\* earlier one has its destination, and one idx was consumed.
C32_Witness ==
    /\ dd_pc \in {"groups", "returned"}
    /\ Len(hash_results) = 2
    /\ hash_results[1].src_path > hash_results[2].src_path
    /\ hash_results[1].file_hash = hash_results[2].file_hash
    /\ hash_results[1].file_hash # NoHash
    /\ unique_files[HashKey(hash_results[1].file_hash)].src_path
          = hash_results[1].src_path
    /\ path_mapping[hash_results[2].src_path]
          = path_mapping[hash_results[1].src_path]
    /\ SumCounters(media_counters, DestKeys) = 1

\* The UniqueFileEntries of dataset and media type dk.
EntriesIn(dk) ==
    {k \in DOMAIN unique_files :
        /\ unique_files[k].original_dataset = dk[1]
        /\ unique_files[k].media_type = dk[2]}

\* The destination name of an entry: f"{media_type}/{idx}{suffix}".
DestName(entry) == RelPath(entry.media_type, entry.idx, entry.suffix)

\* C33: at every moment, whatever order the hash workers finish in, the idx
\* values of the entries of each (dataset, media_type) are exactly
\* 1..counter, each held by one entry, so that no two entries of one
\* dataset and media type have the same destination name; and the counters
\* change only in steps of the coordinator, taken while no hash worker of
\* the group is running, never in the step of a hash worker.
C33_IdxExactlyOneToN ==
    /\ [](\A dk \in DestKeys :
             /\ {unique_files[k].idx : k \in EntriesIn(dk)}
                   = 1..media_counters[dk]
             /\ Cardinality(EntriesIn(dk)) = media_counters[dk]
             /\ \A j, k \in EntriesIn(dk) :
                   DestName(unique_files[j]) = DestName(unique_files[k])
                       => j = k)
    /\ [][media_counters' # media_counters
            => /\ hash_pending = {}
               /\ hash_results' = hash_results
               /\ dd_pc \in {"groups", "hashing"}]_vars

\* C33 witness: the deduplicator has returned two entries of one dataset and
\* media type, for two hashed files of differing content the later of which
\* was delivered first.
C33_Witness ==
    /\ dd_pc = "returned"
    /\ \E dk \in DestKeys :
          /\ media_counters[dk] = 2
          /\ Cardinality(EntriesIn(dk)) = 2
    /\ Len(hash_results) = 2
    /\ hash_results[1].src_path > hash_results[2].src_path
    /\ hash_results[1].file_hash # hash_results[2].file_hash

\* Two files of the same size of at least 10 MiB that agree on the three
\* sampled windows and differ outside them, both read without failure.
BlindPair(f, g) ==
    /\ f # g
    /\ Content(f).size = Content(g).size
    /\ Content(f).size >= LargeFileMiB
    /\ Content(f).sampled = Content(g).sampled
    /\ Content(f).other # Content(g).other
    /\ f \notin hash_fails
    /\ g \notin hash_fails

\* C40: two files of the same size of at least 10 MiB that agree on the
\* three sampled windows get the same hash although they differ outside the
\* windows, and the deduplicator maps both to one destination: they never
\* have different targets, and once it has returned both have the target of
\* the one entry made for their hash, and at most one of the two is the
\* source of an entry.
C40_LargeFileBlindSpot ==
    \A f, g \in FileIds :
        BlindPair(f, g) =>
            /\ get_file_hash_fast(f) = get_file_hash_fast(g)
            /\ get_file_hash_fast(f).tier = "fast"
            /\ (f \in DOMAIN path_mapping /\ g \in DOMAIN path_mapping)
                  => path_mapping[f] = path_mapping[g]
            /\ dd_pc = "returned" =>
                  /\ f \in DOMAIN path_mapping
                  /\ g \in DOMAIN path_mapping
                  /\ HashKey(get_file_hash_fast(f)) \in DOMAIN unique_files
                  /\ path_mapping[f]
                        = DestName(unique_files[HashKey(get_file_hash_fast(f))])
                  /\ Cardinality(EntriesOf(f) \cup EntriesOf(g)) <= 1

\* C40 witness: the deduplicator has returned one destination and one entry
\* for two large files that differ outside the sampled windows.
C40_Witness ==
    /\ dd_pc = "returned"
    /\ \E f, g \in FileIds :
          /\ BlindPair(f, g)
          /\ path_mapping[f] = path_mapping[g]
          /\ Cardinality(DOMAIN unique_files) = 1

(***************************************************************************)
(* The deduplicator on inputs in which every hash succeeds, compared with  *)
(* what it returns for the same input under any other completion order of  *)
(* the hash workers.                                                       *)
(***************************************************************************)
MaxOrderFiles == 3

InitDedupOrder ==
    /\ executor = "dedup"
    /\ all_media_files \in SeqsUpTo(FileRecords, MaxOrderFiles)
    /\ hash_fails = {}
    /\ dd_pc = "start"
    /\ size_groups = <<>>
    /\ dd_g = 0
    /\ hash_pending = {}
    /\ hash_results = <<>>
    /\ unique_files = <<>>
    /\ path_mapping = <<>>
    /\ media_counters = [dk \in DestKeys |-> 0]
    /\ QFIdle
    /\ PreIdle
    /\ DynIdle
    /\ PackIdle
    /\ HashIdle
    /\ ReduceIdle
    /\ ExportIdle
    /\ ArgsInit(NoKwargs)

SpecDedupOrder == InitDedupOrder /\ [][DedupNext]_vars

\* hash_results of the group grp when its workers finish in the order of
\* their files' ranks in ord.
ResultsInOrder(grp, ord) ==
    LET Place(k) == 1 + Cardinality({j \in DOMAIN grp : ord[grp[j]] < ord[grp[k]]})
    IN  [i \in DOMAIN grp |->
            HashResult(grp[CHOOSE k \in DOMAIN grp : Place(k) = i])]

\* The reducer's loop over the first n results, from the dicts st.
RECURSIVE ReduceResults(_, _, _)
ReduceResults(st, results, n) ==
    IF n = 0 THEN [st EXCEPT !.group_hash_map = <<>>]
    ELSE DedupStep(ReduceResults(st, results, n - 1), results[n])

\* The dicts after the second phase has run over the first g size groups,
\* the hash workers of each group finishing in the order ord.
RECURSIVE DedupReplay(_, _)
DedupReplay(g, ord) ==
    IF g = 0
      THEN [group_hash_map |-> <<>>,
            media_counters |-> [dk \in DestKeys |-> 0],
            unique_files |-> <<>>, path_mapping |-> <<>>]
    ELSE LET st == DedupReplay(g - 1, ord)
             grp == size_groups[g]
         IN  IF Len(grp) = 1
               THEN NewUnique(st, grp[1],
                        SizeKey(all_media_files[grp[1]].content.size, grp[1]),
                        FALSE)
               ELSE ReduceResults(st, ResultsInOrder(grp, ord), Len(grp))

\* The grouping of source paths into shared destinations.
SharedTargets(mapping) ==
    {<<f, g>> \in (DOMAIN mapping) \X (DOMAIN mapping) : mapping[f] = mapping[g]}

\* C37: for an input in which every hash succeeds, the grouping of the
\* source paths into shared destinations that the deduplicator returns is
\* the grouping it returns for that input under every other completion
\* order of the hash workers.
C37_GroupingScheduleIndependent ==
    dd_pc = "returned" =>
        \A ord \in Permutations(FileIds) :
            SharedTargets(DedupReplay(Len(size_groups), ord).path_mapping)
                = SharedTargets(path_mapping)

\* The run is one of the completion orders compared.
C37_ReplayCoversRun ==
    dd_pc = "returned" =>
        \E ord \in Permutations(FileIds) :
            /\ DedupReplay(Len(size_groups), ord).path_mapping = path_mapping
            /\ DedupReplay(Len(size_groups), ord).unique_files = unique_files

(***************************************************************************)
(* The volume packer: allocate_files_to_volumes of zip_dataset.py, called  *)
(* with any entry list, shared payload and cap, and the zip tasks that     *)
(* create_zip_files_streaming_optimized makes of the volumes.  The         *)
(* src_path of an entry is its index in the input list.                    *)
(***************************************************************************)
MaxEntries == 3
MaxSize == 3
MaxCap == 2

\* Characters of the payload texts with the number of bytes of their UTF-8
\* encoding.
PayloadChars == {"a", "U+00E9"}

Utf8Width(ch) == IF ch = "a" THEN 1 ELSE 2

\* len(content.encode('utf-8'))
RECURSIVE Utf8Len(_)
Utf8Len(content) ==
    IF content = <<>> THEN 0
    ELSE Utf8Width(Head(content)) + Utf8Len(Tail(content))

PayloadTexts == {<<>>} \cup {<<ch>> : ch \in PayloadChars}

\* config_content None.
NoConfig == <<"None">>

\* `if config_content:` is false on None and on the empty string.
Truthy(content) == content # NoConfig /\ content # <<>>

\* jsonl_data: no metafile, or one metafile with its content.
JsonlChoices ==
    {<<>>} \cup {<< <<"A/MetaFiles/a.jsonl", c>> >> : c \in PayloadTexts}

ConfigChoices == {NoConfig} \cup PayloadTexts

\* sum(len(content.encode('utf-8')) for content in jsonl_data.values())
RECURSIVE JsonlBytes(_)
JsonlBytes(jsonl) ==
    IF jsonl = <<>> THEN 0
    ELSE Utf8Len(Head(jsonl)[2]) + JsonlBytes(Tail(jsonl))

BaseOverhead(jsonl, config) ==
    JsonlBytes(jsonl) + (IF Truthy(config) THEN Utf8Len(config) ELSE 0)

EntryLists ==
    UNION {{[i \in 1..n |-> [src_path |-> i, size |-> sz[i]]] :
                sz \in [1..n -> 0..MaxSize]} : n \in 0..MaxEntries}

\* sorted(unique_file_paths, key=lambda x: x["size"], reverse=True): the
\* sort is stable, entries of equal size keep their input order.
SortedBySize(files) ==
    LET Rank(i) == 1 + Cardinality({j \in DOMAIN files :
                        \/ files[j].size > files[i].size
                        \/ files[j].size = files[i].size /\ j < i})
    IN  [k \in DOMAIN files |-> files[CHOOSE i \in DOMAIN files : Rank(i) = k]]

\* The volume dict.
Volume(files, jsonl, config, size) ==
    [files |-> files, jsonl |-> jsonl, config |-> config, size |-> size]

\* `current_volume["size"] + file_size > max_zip_size and current_volume["files"]`
NeedsNewVolume_never(cur, file_size, cap) == FALSE

NeedsNewVolume_incoming(cur, file_size, cap) ==
    file_size > cap /\ cur.files # <<>>

NeedsNewVolume(cur, file_size, cap) ==
    cur.size + file_size > cap /\ cur.files # <<>>

\* `if current_volume["files"]: volumes.append(current_volume)`
LastVolume_dropped(vols, cur) == vols

LastVolume(vols, cur) == IF cur.files # <<>> THEN Append(vols, cur) ELSE vols

\* zip_info = (zip_path, volume["files"], volume["jsonl"], volume["config"])
\* with zip_path = f"{output_path}_part{vol_idx + 1}.zip"
ZipInfo(part, volume) ==
    [zip_path |-> part, files |-> volume.files, jsonl |-> volume.jsonl,
     config |-> volume.config]

\* create_single_zip_concurrent: the payload members written to the archive.
ArchivePayload(zip_info) ==
    (IF Truthy(zip_info.config)
       THEN {<<"dataset_config.yaml", zip_info.config>>} ELSE {})
    \cup {zip_info.jsonl[k] : k \in DOMAIN zip_info.jsonl}

PackInit ==
    /\ unique_file_paths \in EntryLists
    /\ jsonl_data \in JsonlChoices
    /\ config_content \in ConfigChoices
    /\ max_zip_size \in 0..MaxCap
    /\ pack_pc = "start"
    /\ base_overhead = 0
    /\ sorted_files = <<>>
    /\ pack_i = 0
    /\ volumes = <<>>
    /\ current_volume = <<>>
    /\ zip_tasks = <<>>

\* allocate_files_to_volumes up to its loop: the first volume, the overhead
\* of the shared payload and the sort.
PackStart ==
    /\ pack_pc = "start"
    /\ pack_pc' = "loop"
    /\ base_overhead' = BaseOverhead(jsonl_data, config_content)
    /\ current_volume' = Volume(<<>>, jsonl_data, config_content,
                                BaseOverhead(jsonl_data, config_content))
    /\ sorted_files' = SortedBySize(unique_file_paths)
    /\ pack_i' = 1
    /\ UNCHANGED <<unique_file_paths, jsonl_data, config_content,
                   max_zip_size, volumes, zip_tasks, nonkvars>>

\* One iteration of `for file_info in sorted_files`.
PackFile ==
    /\ pack_pc = "loop"
    /\ pack_i <= Len(sorted_files)
    /\ LET file_info == sorted_files[pack_i]
           seal == NeedsNewVolume(current_volume, file_info.size, max_zip_size)
           cur == IF seal
                    THEN Volume(<<>>, jsonl_data, NoConfig, base_overhead)
                    ELSE current_volume
       IN  /\ volumes' = IF seal THEN Append(volumes, current_volume)
                         ELSE volumes
           /\ current_volume' = Volume(Append(cur.files, file_info), cur.jsonl,
                                       cur.config, cur.size + file_info.size)
    /\ pack_i' = pack_i + 1
    /\ UNCHANGED <<unique_file_paths, jsonl_data, config_content,
                   max_zip_size, pack_pc, base_overhead, sorted_files,
                   zip_tasks, nonkvars>>

\* After the loop: the last volume, and the return.
PackReturn ==
    /\ pack_pc = "loop"
    /\ pack_i > Len(sorted_files)
    /\ volumes' = LastVolume(volumes, current_volume)
    /\ pack_pc' = "returned"
    /\ UNCHANGED <<unique_file_paths, jsonl_data, config_content,
                   max_zip_size, base_overhead, sorted_files, pack_i,
                   current_volume, zip_tasks, nonkvars>>

\* create_zip_files_streaming_optimized: one zip task per volume.
PackZipTasks ==
    /\ pack_pc = "returned"
    /\ zip_tasks' = [k \in DOMAIN volumes |-> ZipInfo(k, volumes[k])]
    /\ pack_pc' = "tasks"
    /\ UNCHANGED <<unique_file_paths, jsonl_data, config_content,
                   max_zip_size, base_overhead, sorted_files, pack_i,
                   volumes, current_volume, nonkvars>>

PackNext == PackStart \/ PackFile \/ PackReturn \/ PackZipTasks

InitPack ==
    /\ executor = "pack"
    /\ PackInit
    /\ QFIdle
    /\ PreIdle
    /\ DynIdle
    /\ DedupIdle
    /\ HashIdle
    /\ ReduceIdle
    /\ ExportIdle
    /\ ArgsInit(NoKwargs)

SpecPack == InitPack /\ [][PackNext]_vars

\* Vocabulary of the packer claims.
PackReturned == pack_pc \in {"returned", "tasks"}

RECURSIVE SumSizes(_)
SumSizes(files) ==
    IF files = <<>> THEN 0 ELSE Head(files).size + SumSizes(Tail(files))

\* The places <<volume, position>> at which entry i of the input is.
PlacesOf(i) ==
    {<<v, k>> \in (DOMAIN volumes) \X (1..MaxEntries + 1) :
        /\ k \in DOMAIN volumes[v].files
        /\ volumes[v].files[k].src_path = i}

Oversized == {i \in DOMAIN unique_file_paths :
                 unique_file_paths[i].size > max_zip_size}

\* C21 (as stated): no volume's recorded size exceeds max_zip_size unless
\* the volume holds exactly one entry whose own size exceeds max_zip_size.
C21_CapUnlessOversizedEntry ==
    \A v \in DOMAIN volumes :
        volumes[v].size > max_zip_size
            => /\ Len(volumes[v].files) = 1
               /\ volumes[v].files[1].size > max_zip_size

\* C21 (amended): a volume's recorded size is the shared payload plus its
\* entries; it exceeds max_zip_size only if the volume holds exactly one
\* entry (whose size plus the shared payload then exceeds the cap, also when
\* the entry alone does not); with an empty shared payload that one entry is
\* itself larger than the cap.
C21_CapUnlessSingleEntry ==
    \A v \in DOMAIN volumes :
        /\ volumes[v].size = base_overhead + SumSizes(volumes[v].files)
        /\ volumes[v].size > max_zip_size => Len(volumes[v].files) = 1
        /\ (volumes[v].size > max_zip_size /\ base_overhead = 0)
              => volumes[v].files[1].size > max_zip_size

\* The packer has returned a volume of one entry that fits the cap alone
\* and exceeds it with the shared payload, and a volume of several entries.
C21_Witness ==
    /\ PackReturned
    /\ \E v \in DOMAIN volumes :
          /\ volumes[v].size > max_zip_size
          /\ Len(volumes[v].files) = 1
          /\ volumes[v].files[1].size <= max_zip_size
    /\ \E v \in DOMAIN volumes : Len(volumes[v].files) >= 2

\* C22: the volumes returned partition the input: every input entry is at
\* exactly one place of exactly one volume, unchanged, and every entry of a
\* volume is an input entry.
C22_VolumesPartitionInput ==
    PackReturned =>
        /\ \A i \in DOMAIN unique_file_paths :
              /\ Cardinality(PlacesOf(i)) = 1
              /\ \A pl \in PlacesOf(i) :
                    volumes[pl[1]].files[pl[2]] = unique_file_paths[i]
        /\ \A v \in DOMAIN volumes : \A k \in DOMAIN volumes[v].files :
              volumes[v].files[k].src_path \in DOMAIN unique_file_paths

\* The packer has returned several volumes holding three entries or more, in
\* an order that is not the input order.
C22_Witness ==
    /\ PackReturned
    /\ Len(volumes) >= 2
    /\ Len(unique_file_paths) >= 3
    /\ sorted_files # unique_file_paths

\* C23: every zip task made of the volumes carries the JSON-lines records,
\* and its archive gets the whole shared payload, the JSON-lines records and
\* the config.
C23_PayloadInEveryVolume ==
    pack_pc = "tasks" =>
        \A t \in DOMAIN zip_tasks :
            /\ zip_tasks[t].jsonl = jsonl_data
            /\ ArchivePayload(zip_tasks[t])
                  = ArchivePayload(ZipInfo(t, Volume(<<>>, jsonl_data,
                                                     config_content, 0)))

\* C24: every entry larger than max_zip_size is in the volumes returned, in
\* a volume that holds nothing else.
C24_OversizedAlone ==
    PackReturned =>
        \A i \in Oversized :
            /\ Cardinality(PlacesOf(i)) = 1
            /\ \A pl \in PlacesOf(i) :
                  /\ volumes[pl[1]].files = <<unique_file_paths[i]>>
                  /\ volumes[pl[1]].size > max_zip_size

\* The packer has returned with two oversized entries and a smaller entry
\* that came before them in the input.
C24_Witness ==
    /\ PackReturned
    /\ Cardinality(Oversized) >= 2
    /\ \E i \in DOMAIN unique_file_paths :
          /\ i \notin Oversized
          /\ \E j \in Oversized : i < j

\* C39: allocate_files_to_volumes returns at least one volume for every
\* input, the empty entry list included, so that a zip task exists that
\* exports the shared payload; and every volume it returns holds an entry
\* or else is the one volume of a call without entries.
C39_AtLeastOneVolume ==
    /\ PackReturned =>
          /\ Len(volumes) >= 1
          /\ \A v \in DOMAIN volumes :
                volumes[v].files = <<>>
                    => (unique_file_paths = <<>> /\ Len(volumes) = 1)
    /\ pack_pc = "tasks" => Len(zip_tasks) >= 1

(***************************************************************************)
(* The content hasher on the bytes of files: get_file_hash_fast of         *)
(* zip_dataset.py (merge_dataset.py and reconstruct_dataset.py hold the    *)
(* same code).  Two files at different paths are hashed, the first up to   *)
(* twice; a call can fail at stat or at reading.  Sizes are in bytes with the MiB *)
(* of the code scaled down to MiB bytes, so that the offsets of the three  *)
(* windows are computed as the code computes them.  A file does not change *)
(* between or during the calls.                                            *)
(***************************************************************************)
MiB == 2

\* `10 * 1024 * 1024`
LargeFileSize == LargeFileMiB * MiB

Min(a, b) == IF a < b THEN a ELSE b
Max(a, b) == IF a > b THEN a ELSE b

\* File contents: all bytes 0 but at most one byte that is 1, of sizes around
\* the limits of the tiers.
HashSizes == {0, 1, LargeFileSize - 1, LargeFileSize, LargeFileSize + 1}

HashDatas ==
    UNION {{[k \in 1..n |-> IF k = one THEN 1 ELSE 0] : one \in 0..n} :
              n \in HashSizes}

HashPaths == <<"a/x.jpg", "b/y.jpg">>

IOOutcomes == {"ok", "stat_fails", "read_fails"}

\* MD5 of a byte stream, taken to be injective: the digest stands for the
\* stream that was fed to it.
Md5(stream) == <<"md5", stream>>

\* str(file_size).encode(): the ASCII codes of the decimal digits.
RECURSIVE Decimal(_)
Decimal(n) ==
    IF n < 10 THEN <<48 + n>>
    ELSE Append(Decimal(n \div 10), 48 + (n % 10))

\* f.seek(offset); f.read(n)
ReadAt(data, offset, n) == SubSeq(data, offset + 1, Min(offset + n, Len(data)))

\* What open(file_path, "rb") reads: the bytes of the file.
OpenRead_path(file) ==
    Append(file.data, IF file.path = HashPaths[1] THEN 2 ELSE 3)

OpenRead(file) == file.data

\* The tier test `file_size < 10 * 1024 * 1024`.
IsSmallFile_upto(file_size) == file_size <= LargeFileSize

IsSmallFile(file_size) == file_size < LargeFileSize

\* The stream hashed for a large file: head, middle, tail, then the size.
SampledStream_nosize(data) ==
    LET file_size == Len(data)
    IN  ReadAt(data, 0, MiB)
        \o ReadAt(data, file_size \div 2, MiB)
        \o ReadAt(data, Max(0, file_size - MiB), file_size)

SampledStream(data) ==
    LET file_size == Len(data)
        head_data == ReadAt(data, 0, MiB)
        middle_data == IF file_size > 2 * MiB
                         THEN ReadAt(data, file_size \div 2, MiB) ELSE <<>>
        tail_data == IF file_size > MiB
                       THEN ReadAt(data, Max(0, file_size - MiB), file_size)
                       ELSE <<>>
    IN  head_data \o middle_data \o tail_data \o Decimal(file_size)

\* The values get_file_hash_fast returns.
HashNone == [prefix |-> "None", digest |-> <<>>]
EmptyFileHash == [prefix |-> "empty_file", digest |-> <<>>]
HexDigest(prefix, stream) == [prefix |-> prefix, digest |-> Md5(stream)]

\* get_file_hash_fast(file_path) with the I/O outcome of the call.
FileHash(file, io) ==
    LET file_size == Len(file.data)
    IN  IF io = "stat_fails" THEN HashNone
        ELSE IF file_size = 0 THEN EmptyFileHash
        ELSE IF io = "read_fails" THEN HashNone
        ELSE IF IsSmallFile(file_size) THEN HexDigest("", OpenRead(file))
        ELSE HexDigest("fast_", SampledStream(OpenRead(file)))

HashInit ==
    /\ hs_files \in {[i \in 1..2 |-> [path |-> HashPaths[i], data |-> d[i]]] :
                        d \in [1..2 -> HashDatas]}
    /\ hs_out = [i \in 1..2 |-> <<>>]

\* The calls made on file i: the first file is hashed twice.
HashTimes(i) == IF i = 1 THEN 2 ELSE 1

\* One call of get_file_hash_fast on file i.
HashCall(i) ==
    /\ Len(hs_out[i]) < HashTimes(i)
    /\ \E io \in IOOutcomes :
          hs_out' = [hs_out EXCEPT ![i] =
                        Append(@, [io |-> io,
                                   result |-> FileHash(hs_files[i], io)])]
    /\ UNCHANGED <<hs_files, nonhvars>>

HashNext == \E i \in 1..2 : HashCall(i)

InitHash ==
    /\ executor = "hash"
    /\ HashInit
    /\ QFIdle
    /\ PreIdle
    /\ DynIdle
    /\ DedupIdle
    /\ PackIdle
    /\ ReduceIdle
    /\ ExportIdle
    /\ ArgsInit(NoKwargs)

SpecHash == InitHash /\ [][HashNext]_vars

\* Vocabulary of the hasher claims: the calls <<file, number>> made so far,
\* those that met no I/O failure, the size of a file.
HashCalls == {c \in (1..2) \X (1..2) : c[2] <= Len(hs_out[c[1]])}
HashCallsOk == {c \in HashCalls : hs_out[c[1]][c[2]].io = "ok"}
HashOf(c) == hs_out[c[1]][c[2]].result
DataOf(c) == hs_files[c[1]].data

\* C25: the tier follows from the size alone.  A call that could stat a file
\* of size 0 returns "empty_file"; a call without I/O failure returns the
\* unprefixed digest of the whole content for 0 < size < 10 MiB and a digest
\* prefixed "fast_" over a sample from 10 MiB on, 10 MiB itself included;
\* two files of one size get results of the same tier.
C25_TierBySize ==
    /\ \A c \in HashCalls :
          (hs_out[c[1]][c[2]].io # "stat_fails" /\ Len(DataOf(c)) = 0)
              => HashOf(c) = EmptyFileHash
    /\ \A c \in HashCallsOk :
          LET n == Len(DataOf(c))
          IN  /\ (0 < n /\ n < LargeFileMiB * MiB)
                    => HashOf(c) = [prefix |-> "", digest |-> Md5(DataOf(c))]
              /\ n >= LargeFileMiB * MiB
                    => /\ HashOf(c).prefix = "fast_"
                       /\ Len(HashOf(c).digest[2]) < n
    /\ \A c, d \in HashCallsOk :
          Len(DataOf(c)) = Len(DataOf(d)) => HashOf(c).prefix = HashOf(d).prefix

\* Files of size 10 MiB - 1 and of exactly 10 MiB have been hashed without
\* I/O failure.
C25_Witness ==
    /\ \E c \in HashCallsOk : Len(DataOf(c)) = LargeFileMiB * MiB
    /\ \E c \in HashCallsOk : Len(DataOf(c)) = LargeFileMiB * MiB - 1

\* C26 (as stated): for a file of 10 MiB or more the stream digested is the
\* first MiB, the MiB centered at the midpoint, the last MiB and the decimal
\* string of the size.
C26_MiddleWindowCentered ==
    \A c \in HashCallsOk :
        LET data == DataOf(c)
            n == Len(data)
            mid == n \div 2
        IN  n >= LargeFileMiB * MiB
              => HashOf(c).digest =
                    Md5(SubSeq(data, 1, MiB)
                        \o SubSeq(data, mid - (MiB \div 2) + 1,
                                  mid - (MiB \div 2) + MiB)
                        \o SubSeq(data, n - MiB + 1, n)
                        \o Decimal(n))

\* C26 (amended): for a file of 10 MiB or more the stream digested is the
\* first MiB, the MiB that starts at byte offset size // 2, the last MiB and
\* the decimal string of the size, in this order.
C26_MiddleWindowFromMidpoint ==
    \A c \in HashCallsOk :
        LET data == DataOf(c)
            n == Len(data)
            mid == n \div 2
        IN  n >= LargeFileMiB * MiB
              => HashOf(c).digest =
                    Md5(SubSeq(data, 1, MiB)
                        \o SubSeq(data, mid + 1, mid + MiB)
                        \o SubSeq(data, n - MiB + 1, n)
                        \o Decimal(n))

\* Two files of 10 MiB or more have been hashed that differ in the byte just
\* before the midpoint, which a centered window would have read: they have
\* one hash.
C26_Witness ==
    \E c, d \in HashCallsOk :
        /\ Len(DataOf(c)) = Len(DataOf(d))
        /\ Len(DataOf(c)) >= LargeFileMiB * MiB
        /\ DataOf(c)[Len(DataOf(c)) \div 2] # DataOf(d)[Len(DataOf(d)) \div 2]
        /\ HashOf(c) = HashOf(d)

\* C27: the hash is a function of the bytes: calls without I/O failure on
\* byte-identical files, whatever their paths, and repeated calls on one
\* file, return the same value.
C27_HashOfBytesOnly ==
    \A c, d \in HashCallsOk : DataOf(c) = DataOf(d) => HashOf(c) = HashOf(d)

\* The two files, at different paths, are byte-identical and not empty; the
\* first has been hashed twice and the second once, without I/O failure.
C27_Witness ==
    /\ hs_files[1].data = hs_files[2].data
    /\ hs_files[1].path # hs_files[2].path
    /\ Len(hs_files[1].data) > 0
    /\ {<<1, 1>>, <<1, 2>>, <<2, 1>>} \subseteq HashCallsOk

\* The three windows get_file_hash_fast reads of a large file.
Windows(data) ==
    <<SubSeq(data, 1, MiB),
      SubSeq(data, Len(data) \div 2 + 1, Len(data) \div 2 + MiB),
      SubSeq(data, Len(data) - MiB + 1, Len(data))>>

\* On the bytes: two files of one size of 10 MiB or more have the same hash
\* exactly when they agree on the three windows, whatever their other bytes
\* (the content hash of the deduplicator's model keeps the windows apart
\* from the other bytes accordingly).
SampleDeterminesHash ==
    \A c, d \in HashCallsOk :
        (Len(DataOf(c)) = Len(DataOf(d)) /\ Len(DataOf(c)) >= LargeFileSize)
            => (HashOf(c) = HashOf(d) <=> Windows(DataOf(c)) = Windows(DataOf(d)))

(***************************************************************************)
(* The export with path deduplication (process_datasets of zip_dataset.py  *)
(* with need_deduplicate): deduplicate_media_files_by_path, then           *)
(* update_item_paths, then the archive member names and the writing of the *)
(* members in create_zip_files_streaming_optimized, and the resolution of  *)
(* a rewritten path by process_jsonl_file of unzip_repath_dataset.py.      *)
(* Every item lists one media path; every listed file exists.              *)
(***************************************************************************)
MaxMediaRefs == 3
MaxSrcPaths == 2

SrcPaths == 1..MaxSrcPaths

\* src_path.suffix: a property of the path.
PathSuffix(p) == IF p = 1 THEN ".jpg" ELSE ".mp4"

\* What collect_media_files_from_item returns for an item: the path, the
\* key of the item it is listed under and the dataset of the item.
MediaRefs ==
    {[src_path |-> p, dataset_name |-> d[1], media_type |-> d[2],
      suffix |-> PathSuffix(p)] : p \in SrcPaths, d \in DestKeys}

\* f"{original_dataset}/MediaFiles/{media_type}/{idx}{suffix}"
ZipPath(dataset, rel_path) == [dataset |-> dataset, rel |-> rel_path]

\* defaultdict(int) lookup.
CounterAt(counters, k) == IF k \in DOMAIN counters THEN counters[k] ELSE 0

\* The media files come in the order the collecting threads delivered them:
\* any order.
InitExport ==
    /\ executor = "export"
    /\ ArgsInit(NoKwargs)
    /\ QFIdle
    /\ PreIdle
    /\ DynIdle
    /\ DedupIdle
    /\ PackIdle
    /\ HashIdle
    /\ ReduceIdle
    /\ ex_media_files \in SeqsUpTo(MediaRefs, MaxMediaRefs) \ {<<>>}
    /\ ex_pc = "dedup"
    /\ ex_i = 0
    /\ ex_unique_files = <<>>
    /\ ex_path_mapping = <<>>
    /\ ex_media_counters = <<>>
    /\ ex_updated = <<>>
    /\ ex_file_counters = <<>>
    /\ ex_unique_file_paths = <<>>
    /\ ex_archive = {}

\* One iteration of the loop of deduplicate_media_files_by_path: a path seen
\* before is skipped; a new one takes the next idx of the dataset and media
\* type of this first reference to it.
DedupByPathLoop ==
    /\ ex_pc = "dedup"
    /\ LET media_file == ex_media_files[ex_i + 1]
           src_path == media_file.src_path
           dk == <<media_file.dataset_name, media_file.media_type>>
           idx == CounterAt(ex_media_counters, dk) + 1
       IN  IF src_path \in DOMAIN ex_path_mapping
             THEN UNCHANGED <<ex_unique_files, ex_path_mapping, ex_media_counters>>
           ELSE /\ ex_media_counters' = DictPut(ex_media_counters, dk, idx)
                /\ ex_unique_files' =
                       Append(ex_unique_files,
                              [media_type |-> media_file.media_type,
                               src_path |-> src_path,
                               idx |-> idx,
                               suffix |-> media_file.suffix,
                               original_dataset |-> media_file.dataset_name])
                /\ ex_path_mapping' =
                       DictPut(ex_path_mapping, src_path,
                               RelPath(media_file.media_type, idx, media_file.suffix))
    /\ ex_i' = IF ex_i + 1 = Len(ex_media_files) THEN 0 ELSE ex_i + 1
    /\ ex_pc' = IF ex_i + 1 = Len(ex_media_files) THEN "update" ELSE "dedup"
    /\ UNCHANGED <<ex_media_files, ex_updated, ex_file_counters,
                   ex_unique_file_paths, ex_archive>>
    /\ UNCHANGED nonevars

\* update_item_paths on every item: the listed path is replaced by its
\* mapping (every path was collected, so every path has one); the item keeps
\* its dataset.
UpdateItemPaths ==
    /\ ex_pc = "update"
    /\ ex_updated' =
           [k \in DOMAIN ex_media_files |->
               [dataset_name |-> ex_media_files[k].dataset_name,
                path |-> ex_path_mapping[ex_media_files[k].src_path]]]
    /\ ex_pc' = "paths"
    /\ UNCHANGED <<ex_media_files, ex_i, ex_unique_files, ex_path_mapping,
                   ex_media_counters, ex_file_counters, ex_unique_file_paths,
                   ex_archive>>
    /\ UNCHANGED nonevars

\* One iteration of the loop over unique_files in
\* create_zip_files_streaming_optimized: the idx is counted again, per
\* original dataset and media type, and the member name is put under the
\* original dataset.
ZipPathLoop ==
    /\ ex_pc = "paths"
    /\ LET info == ex_unique_files[ex_i + 1]
           dk == <<info.original_dataset, info.media_type>>
           idx == CounterAt(ex_file_counters, dk) + 1
       IN  /\ ex_file_counters' = DictPut(ex_file_counters, dk, idx)
           /\ ex_unique_file_paths' =
                  Append(ex_unique_file_paths,
                         [src_path |-> info.src_path,
                          zip_path |-> ZipPath(info.original_dataset,
                                               RelPath(info.media_type, idx, info.suffix))])
    /\ ex_i' = IF ex_i + 1 = Len(ex_unique_files) THEN 0 ELSE ex_i + 1
    /\ ex_pc' = IF ex_i + 1 = Len(ex_unique_files) THEN "zip" ELSE "paths"
    /\ UNCHANGED <<ex_media_files, ex_unique_files, ex_path_mapping,
                   ex_media_counters, ex_updated, ex_archive>>
    /\ UNCHANGED nonevars

\* create_single_zip_concurrent over the volumes: every entry is written,
\* zipf.write(src_path, zip_path), into the volume it was allotted to.
ZipWrite ==
    /\ ex_pc = "zip"
    /\ ex_archive' =
           {[zip_path |-> ex_unique_file_paths[k].zip_path,
             src_path |-> ex_unique_file_paths[k].src_path] :
                k \in DOMAIN ex_unique_file_paths}
    /\ ex_pc' = "done"
    /\ UNCHANGED <<ex_media_files, ex_i, ex_unique_files, ex_path_mapping,
                   ex_media_counters, ex_updated, ex_file_counters,
                   ex_unique_file_paths>>
    /\ UNCHANGED nonevars

ExportNext ==
    \/ DedupByPathLoop
    \/ UpdateItemPaths
    \/ ZipPathLoop
    \/ ZipWrite

SpecExport == InitExport /\ [][ExportNext]_vars

\* process_jsonl_file on unpacking: new_base_path / dataset_dir.name /
\* rel_path, the member of that name in the unpacked archive.
ResolvedMember(dataset, rel_path) == ZipPath(dataset, rel_path)

\* The files the archive holds under a member name.
SourcesAt(zip_path) == {m.src_path : m \in {x \in ex_archive : x.zip_path = zip_path}}

\* The rewritten path of item k resolves to the one member that was written
\* from the file the item listed.
ResolvesRight(k) ==
    SourcesAt(ResolvedMember(ex_updated[k].dataset_name, ex_updated[k].path))
        = {ex_media_files[k].src_path}

\* The idx counted again for the member names is the idx of the entry.
RecomputedIdxIsStored ==
    \A k \in DOMAIN ex_unique_file_paths :
        ex_unique_file_paths[k].zip_path.rel.idx = ex_unique_files[k].idx

\* An item of the dataset the entry of its file belongs to resolves right.
OwnDatasetResolvesRight ==
    ex_pc = "done" =>
        \A k \in DOMAIN ex_updated :
            (\E e \in DOMAIN ex_unique_files :
                /\ ex_unique_files[e].src_path = ex_media_files[k].src_path
                /\ ex_unique_files[e].original_dataset = ex_media_files[k].dataset_name)
                => ResolvesRight(k)

\* C36: after path deduplication, path rewriting and packing, every media
\* path of the rewritten metadata resolves, under the directory of the
\* item's dataset, to the archive member written from the file the item
\* listed, and the idx counted again for the member names equals the idx
\* stored in the entry.
C36_ExportResolves ==
    /\ RecomputedIdxIsStored
    /\ ex_pc = "done" => \A k \in DOMAIN ex_updated : ResolvesRight(k)
====
